---- MODULE Spec2Model ----
(***************************************************************************)
(* A model of the P-minimal multi-objective solver (src/src/pminimal.rs)   *)
(* and of its shared types (src/core/src/types.rs).                        *)
(*                                                                         *)
(* Variables are numbered from 1; a literal is a non-zero integer, v for   *)
(* the positive and -v for the negative literal of variable v.  An         *)
(* Option<T> is a sequence of length 0 (None) or 1 (Some), except for      *)
(* Option<Var>, where 0 stands for None.  An assignment is the set of its  *)
(* true variables together with the variables it covers (1..max).          *)
(***************************************************************************)
EXTENDS Integers, Sequences, FiniteSets, TLC

\* ------------------------------------------------------------------ bounds
\* Largest value of a per-run limit handed to solve.
MaxLimit == 2
\* Largest per-point enumeration limit of Solutions(Some(n)) / PMCSs(Some(n)).
MaxEnumLimit == 2
\* Number of solve calls on one solver instance.
MaxSolveCalls == 2

\* ---------------------------------------------------------------- literals
VarOf(l) == IF l < 0 THEN -l ELSE l
Not(l) == -l
None == <<>>
Some(x) == <<x>>

\* lit_value of a literal under an assignment given by its true variables
LitTrue(l, m) == IF l > 0 THEN l \in m ELSE (-l) \notin m

SeqToSet(s) == {s[k] : k \in DOMAIN s}

\* the element of a singleton set: The({f(x) : x \in {e}}) is f(e), with e
\* evaluated once
The(S) == CHOOSE x \in S : TRUE

RECURSIVE SumW(_, _)
\* sum of the weights of the literals of lits (a sequence of <<lit, weight>>)
\* that are true under m
SumW(lits, m) ==
    IF lits = <<>> THEN 0
    ELSE (IF LitTrue(Head(lits)[1], m) THEN Head(lits)[2] ELSE 0) + SumW(Tail(lits), m)

\* ---------------------------------------------------------------- options
\* A phase selector of the heuristic improvements: the phases it is wanted in.
wanted(when, phase) == phase \in when
must_store_clauses(o) == o.solution_tightening # {} \/ o.tightening_clauses # {}

\* --------------------------------------------------------------- encoders
\* The values an objective's internal cost can exceed: the output values of
\* its incremental upper-bound encoder.
RECURSIVE Sums(_)
Sums(lits) ==
    IF lits = <<>> THEN {0}
    ELSE Sums(Tail(lits)) \cup {s + Head(lits)[2] : s \in Sums(Tail(lits))}

OutVals(enc) ==
    IF enc.kind = "Constant" THEN {}
    ELSE Sums(enc.lits) \ {0}

Least(S) == {v \in S : \A u \in S : v <= u}

\* The output values whose negated output literals enforce_ub(k) assumes: a
\* cardinality encoder answers with the single output k+1, a pseudo-Boolean
\* encoder with every output above k.
UbOuts(enc, k) ==
    IF enc.kind = "Unweighted"
    THEN Least({v \in OutVals(enc) : v > k})
    ELSE {v \in OutVals(enc) : v > k}

\* the elements of a set of integers in increasing order
SetToSeq(S) ==
    [k \in 1 .. Cardinality(S) |->
        CHOOSE y \in S : Cardinality({z \in S : z < y}) = k - 1]

\* reserve: allocate the variables of the outputs vals of objective i's encoder
RECURSIVE ReserveOuts(_, _, _, _)
ReserveOuts(i, vals, vm, ev) ==
    IF vals = <<>> THEN [var_manager |-> vm, enc_vars |-> ev]
    ELSE IF <<i, Head(vals)>> \in DOMAIN ev
         THEN ReserveOuts(i, Tail(vals), vm, ev)
         ELSE ReserveOuts(i, Tail(vals), vm + 1, ev @@ (<<i, Head(vals)>> :> vm + 1))

WithVars(st, r) == [st EXCEPT !.var_manager = r.var_manager, !.enc_vars = r.enc_vars]

\* ------------------------------------------------------------------- init
\* add_soft_clause, lines 997-1011: a new blit relaxes the clause
RelaxSoft(st, cls, blit, store) ==
    [olit |-> blit,
     info |-> Some([cls_idx |-> IF store THEN Some(Len(st.obj_clauses) + 1) ELSE None,
                    hard_cl |-> Append(cls, blit)]),
     st |-> [st EXCEPT !.var_manager = blit,
                       !.blits = @ @@ (cls :> blit),
                       !.obj_clauses = IF store THEN Append(@, cls) ELSE @]]

\* A faulty add_soft_clause that relaxes every occurrence anew.
RelaxAlways(st, o, cls) ==
    IF Len(cls) = 1 THEN [olit |-> Not(cls[1]), info |-> None, st |-> st]
    ELSE RelaxSoft(st, cls, st.var_manager + 1, must_store_clauses(o))

\* add_soft_clause: the objective literal of a soft clause, and the relaxed
\* clause when the clause is newly relaxed
add_soft_clause(st, o, cls) ==
    IF Len(cls) = 1 THEN [olit |-> Not(cls[1]), info |-> None, st |-> st]
    ELSE IF cls \in DOMAIN st.blits
    THEN [olit |-> st.blits[cls], info |-> None, st |-> st]
    ELSE RelaxSoft(st, cls, st.var_manager + 1, must_store_clauses(o))

\* "Track the objective index for the objective literal"
PushObj(data, olit, idx) ==
    IF olit \in DOMAIN data
    THEN [data EXCEPT ![olit].objs = Append(@, idx)]
    ELSE data @@ (olit :> [objs |-> <<idx>>, clauses |-> <<>>])

\* "Add hard clause to CNF and track olit appearance"
PushClause(data, olit, info, store) ==
    IF info # None /\ store
    THEN [data EXCEPT ![olit].clauses = Append(@, info[1].cls_idx[1])]
    ELSE data

\* the closure of add_objective on the result r of add_soft_clause
TrackSoft(r, o, w) ==
    [r.st EXCEPT
        !.obj_lit_data = PushClause(PushObj(@, r.olit, Len(r.st.obj_encs) + 1),
                                    r.olit, r.info, must_store_clauses(o)),
        !.obj_cnf = IF r.info # None THEN Append(@, r.info[1].hard_cl) ELSE @,
        !.lits = Append(@, <<r.olit, w>>)]

RECURSIVE AddSofts(_, _, _)
AddSofts(st, o, softs) ==
    IF softs = <<>> THEN st
    ELSE AddSofts(TrackSoft(add_soft_clause(st, o, Head(softs).cl), o, Head(softs).w),
                  o, Tail(softs))

ReserveLast(st) ==
    WithVars(st, ReserveOuts(Len(st.obj_encs), SetToSeq(OutVals(st.obj_encs[Len(st.obj_encs)])),
                             st.var_manager, st.enc_vars))

\* ObjEncoding::new_weighted / new_unweighted
NewEncoding(st, reserve, enc) ==
    IF reserve
    THEN ReserveLast([st EXCEPT !.obj_encs = Append(@, enc), !.lits = <<>>])
    ELSE [st EXCEPT !.obj_encs = Append(@, enc), !.lits = <<>>]

\* add_objective, after its soft clauses were added: the encoder
PushEncoding(st, o, obj) ==
    IF \E k \in DOMAIN obj.softs : obj.softs[k].w # obj.softs[1].w
    THEN NewEncoding(st, o.reserve_enc_vars,
                     [kind |-> "Weighted", offset |-> obj.offset,
                      unit_weight |-> 1, lits |-> st.lits])
    ELSE NewEncoding(st, o.reserve_enc_vars,
                     [kind |-> "Unweighted", offset |-> obj.offset,
                      unit_weight |-> obj.softs[1].w,
                      lits |-> [k \in DOMAIN st.lits |-> <<st.lits[k][1], 1>>]])

\* add_objective
add_objective(st, o, obj) ==
    IF obj.softs = <<>>
    THEN [st EXCEPT !.obj_encs = Append(@, [kind |-> "Constant", offset |-> obj.offset,
                                            unit_weight |-> 1, lits |-> <<>>])]
    ELSE PushEncoding(AddSofts(st, o, obj.softs), o, obj)

RECURSIVE AddObjectives(_, _, _)
AddObjectives(st, o, objs) ==
    IF objs = <<>> THEN st
    ELSE AddObjectives(add_objective(st, o, Head(objs)), o, Tail(objs))

\* the objective literals of a clause get the clause's index idx
LinkClause(data, cl, idx) ==
    [l \in DOMAIN data |->
        IF l \in SeqToSet(cl) THEN [data[l] EXCEPT !.clauses = Append(@, idx)]
        ELSE data[l]]

\* init, lines 303-309: soft clauses that contain other objective literals
RECURSIVE LinkSoft(_, _, _)
LinkSoft(data, cls, idx) ==
    IF idx > Len(cls) THEN data
    ELSE LinkSoft(LinkClause(data, cls[idx], idx), cls, idx + 1)

\* init, lines 311-323: original clauses that contain objective literals
RECURSIVE LinkHard(_, _)
LinkHard(st, cnf) ==
    IF cnf = <<>> THEN st
    ELSE IF SeqToSet(Head(cnf)) \cap DOMAIN st.obj_lit_data = {}
    THEN LinkHard(st, Tail(cnf))
    ELSE LinkHard([st EXCEPT !.obj_lit_data =
                                 LinkClause(@, Head(cnf), Len(st.obj_clauses) + 1),
                             !.obj_clauses = Append(@, Head(cnf))],
                  Tail(cnf))

\* init, lines 301-324
StoreClauses(st, o, ins) ==
    IF must_store_clauses(o)
    THEN LinkHard([st EXCEPT !.obj_lit_data = LinkSoft(@, st.obj_clauses, 1)], ins.hard)
    ELSE st

\* init, lines 326-331: max_orig_var and the oracle's first clauses
Freeze(st, ins) ==
    [var_manager |-> st.var_manager,
     obj_encs |-> st.obj_encs,
     obj_clauses |-> st.obj_clauses,
     blits |-> st.blits,
     obj_lit_data |-> st.obj_lit_data,
     enc_vars |-> st.enc_vars,
     max_orig_var |-> st.var_manager,
     cnf |-> {SeqToSet(c) : c \in SeqToSet(ins.hard \o st.obj_cnf)},
     n_objs |-> Len(ins.objs),
     n_orig_clauses |-> Len(ins.hard)]

\* The solver before init: the variable manager knows the instance's variables.
NewSolver(ins) ==
    [var_manager |-> ins.nvars, obj_encs |-> <<>>, obj_clauses |-> <<>>,
     blits |-> <<>>, obj_lit_data |-> <<>>, obj_cnf |-> <<>>, lits |-> <<>>,
     enc_vars |-> <<>>]

\* The solver as init leaves it.
init(ins, o) ==
    Freeze(StoreClauses(AddObjectives(NewSolver(ins), o, ins.objs), o, ins), ins)

\* -------------------------------------------------------------- instances
Soft(cl, w) == [cl |-> cl, w |-> w]
Obj(offset, softs) == [offset |-> offset, softs |-> softs]

\* Two independent objectives x and y, no constraints.
TwoIndep == [nvars |-> 2, hard |-> <<>>,
             objs |-> <<Obj(0, <<Soft(<<-1>>, 1)>>), Obj(0, <<Soft(<<-2>>, 1)>>)>>]
\* Trade-off: hard clause x or y, objectives x and y.
TradeOff == [nvars |-> 2, hard |-> << <<1, 2>> >>,
             objs |-> <<Obj(0, <<Soft(<<-1>>, 1)>>), Obj(0, <<Soft(<<-2>>, 1)>>)>>]
\* Offsets and weights: 2x + 3y + 5 and z, hard clause x or y or z.
OffsetsWeights == [nvars |-> 3, hard |-> << <<1, 2, 3>> >>,
                   objs |-> <<Obj(5, <<Soft(<<-1>>, 2), Soft(<<-2>>, 3)>>),
                              Obj(0, <<Soft(<<-3>>, 1)>>)>>]
\* A constant objective with offset 4 and the objective x.
ConstObj == [nvars |-> 1, hard |-> <<>>,
             objs |-> <<Obj(4, <<>>), Obj(0, <<Soft(<<-1>>, 1)>>)>>]
\* No variables at all.
EmptyInst == [nvars |-> 0, hard |-> <<>>, objs |-> <<Obj(4, <<>>), Obj(-1, <<>>)>>]
\* A soft clause of length two (relaxed by a blit) against x + y, unit weight 2.
SoftClause == [nvars |-> 2, hard |-> <<>>,
               objs |-> <<Obj(1, <<Soft(<<1, 2>>, 1)>>),
                          Obj(0, <<Soft(<<-1>>, 2), Soft(<<-2>>, 2)>>)>>]
\* The trade-off with a third, free variable: two solutions at each point.
FreeVar == [nvars |-> 3, hard |-> << <<1, 2>> >>,
            objs |-> <<Obj(0, <<Soft(<<-1>>, 1)>>), Obj(0, <<Soft(<<-2>>, 1)>>)>>]
\* The literal l = 1 in both objectives, the second also asking for x = 2 true:
\* hard clause l or x.
SharedLit == [nvars |-> 2, hard |-> << <<1, 2>> >>,
              objs |-> <<Obj(0, <<Soft(<<-1>>, 1)>>),
                         Obj(0, <<Soft(<<2>>, 1), Soft(<<-1>>, 1)>>)>>]
\* One objective and a free variable: one Pareto point with two solutions.
TwoSols == [nvars |-> 2, hard |-> <<>>, objs |-> <<Obj(0, <<Soft(<<-1>>, 1)>>)>>]
\* Unsatisfiable hard clauses.
UnsatInst == [nvars |-> 1, hard |-> << <<1>>, <<-1>> >>,
              objs |-> <<Obj(0, <<Soft(<<-1>>, 1)>>)>>]

\* One objective x + y with the hard clause x or not y: the clause of x is
\* satisfied by not y only once y was flipped.
Chained == [nvars |-> 2, hard |-> << <<1, -2>> >>,
            objs |-> <<Obj(0, <<Soft(<<-1>>, 1), Soft(<<-2>>, 1)>>)>>]

\* The soft clause x or y three times: twice in the first objective, once in
\* the second, beside the unit soft clause not x.
Repeated == [nvars |-> 2, hard |-> <<>>,
             objs |-> <<Obj(0, <<Soft(<<1, 2>>, 1), Soft(<<1, 2>>, 1)>>),
                        Obj(0, <<Soft(<<1, 2>>, 1), Soft(<<-1>>, 1)>>)>>]

\* The objectives x and (not x) + y with the hard clause x or y: the literal
\* x and its negation are both objective literals.
BothSigns == [nvars |-> 2, hard |-> << <<1, 2>> >>,
              objs |-> <<Obj(0, <<Soft(<<-1>>, 1)>>),
                         Obj(0, <<Soft(<<1>>, 1), Soft(<<-2>>, 1)>>)>>]

Instances == {TwoIndep, TradeOff, OffsetsWeights, ConstObj, EmptyInst, SoftClause,
              FreeVar, SharedLit, UnsatInst}

Phases == {"OuterLoop", "Minimization", "Enumeration"}

\* ------------------------------------------------------------------ state
VARIABLES
    inst,          \* the instance the solver was built from
    opts,          \* Options
    var_manager,   \* the variable manager's max_var (0: no variable)
    obj_encs,      \* Vec<ObjEncoding>
    obj_clauses,   \* Vec<Clause>
    blits,         \* soft clause -> blit
    obj_lit_data,  \* objective literal -> ObjLitData
    max_orig_var,  \* Option<Var> (0: None)
    enc_vars,      \* <<objective, output value>> -> the output's variable
    encoded,       \* outputs whose clauses the oracle holds
    tseitin,       \* and_lit variable -> the cube it implies
    oracle,        \* the clauses added to the oracle (encoder clauses apart)
    phased,        \* Option of the solution the oracle's phases are set to
    oracle_term,   \* the oracle has a terminator attached
    pareto_front,  \* ParetoFront: sequence of [costs, sols]
    stats,         \* Stats
    lims,          \* Limits of the current run
    loggers,       \* Vec<Option<logger>>
    term_cb,       \* Option<fn() -> ControlSignal>, as a flag
    pc,            \* position of the solve call in progress ("idle": none)
    costs,         \* local: internal costs of the current candidate
    solution,      \* local: the current candidate / solution
    block_switch,  \* local: Option<Lit>
    assumps,       \* local: assumptions of the next oracle call
    pareto_point,  \* local: the Pareto point being enumerated
    ret,           \* what the last solve call returned (None: never called)
    call,          \* history: the limits given to the current solve call, and the
                   \* statistics and the front when it started
    last_res,      \* history: Option of the phase and answer of the last oracle
                   \* call of the current solve call
    logger_ids,    \* history: the id each attach_logger call returned, in call order
    polled,        \* history: check_terminator has called the callback since the
                   \* last oracle return of the current solve call
    overflow_checks, \* build profile: integer overflow panics (as in a debug
                   \* build) instead of wrapping (as in a release build)
    obj_args,      \* types.rs: the (literal, weight) list and offset for Objective::new
    objective,     \* types.rs: Option of the Objective that Objective::new built
    encoding,      \* types.rs: an ObjEncoding adapter around its encoder
    ub_res,        \* types.rs: Option of the last enforce_ub call on the adapter
    ndoms,         \* types.rs: the points of a ParetoFront being extended
    extended       \* history: Option of the last extend call on that front: the
                   \* points before, the batch, whether the non-dominance check
                   \* was compiled in, and whether the call completed

vars == <<inst, opts, var_manager, obj_encs, obj_clauses, blits, obj_lit_data,
          max_orig_var, enc_vars, encoded, tseitin, oracle, phased, oracle_term,
          pareto_front, stats, lims, loggers, term_cb, pc, costs, solution,
          block_switch, assumps, pareto_point, ret, call, last_res, polled,
          logger_ids, overflow_checks, obj_args, objective, encoding, ub_res,
          ndoms, extended>>

\* ----------------------------------------------------------------- oracle
\* internal cost of objective i under the assignment m
Cost(i, m) == SumW(obj_encs[i].lits, m)
CostVec(m) == [i \in DOMAIN obj_encs |-> Cost(i, m)]

OutKeys(v) == {key \in DOMAIN enc_vars : enc_vars[key] = v}

\* Auxiliary variables that unit clauses or assumptions force to false.
ForcedFalse(as) ==
    {-l : l \in {x \in as \cup UNION {c \in oracle : Cardinality(c) = 1} : x < 0}}

\* A literal of an encoder output, a block switch, or an original variable can
\* be made true in a model that extends m.  An output "cost_i >= val" may be
\* false only when cost_i < val; a variable above max_orig_var that occurs in
\* one polarity only is set as needed unless forced.
BaseSat(l, m, ff) ==
    LET v == VarOf(l) IN
    IF v <= max_orig_var THEN LitTrue(l, m)
    ELSE IF OutKeys(v) # {}
    THEN IF l < 0 THEN \A key \in OutKeys(v) : Cost(key[1], m) < key[2]
         ELSE v \notin ff
    ELSE IF l > 0 THEN v \notin ff ELSE TRUE

LitSat(l, m, ff) ==
    IF l > 0 /\ l \in DOMAIN tseitin
    THEN l \notin ff /\ \A a \in tseitin[l] : BaseSat(a, m, ff)
    ELSE BaseSat(l, m, ff)

\* the encoder clauses in the oracle: an encoded output is true when the cost
\* reaches its value
EncOK(m) ==
    \A key \in encoded :
        enc_vars[key] <= max_orig_var /\ Cost(key[1], m) >= key[2] => enc_vars[key] \in m

\* The models of the oracle's clauses under the assumptions as, restricted to
\* the variables up to max_orig_var.
Models(as) ==
    LET ff == ForcedFalse(as) IN
    {m \in SUBSET (1 .. max_orig_var) :
        /\ EncOK(m)
        /\ \A a \in as : LitSat(a, m, ff)
        /\ \A c \in oracle : \E l \in c : LitSat(l, m, ff)}

\* A faulty oracle that never answers Unsat.
AlwaysSat(as) == {"Sat"}

\* The answers oracle.solve_assumps(as) can give.
SolverResults(as) ==
    (IF Models(as) = {} THEN {"Unsat"} ELSE {"Sat"})
        \cup (IF oracle_term THEN {"Interrupted"} ELSE {})

\* ---------------------------------------------------- dominance engine (D)
\* The part of the solver the dominance engine changes.
Cur == [var_manager |-> var_manager, enc_vars |-> enc_vars, encoded |-> encoded,
        tseitin |-> tseitin, oracle |-> oracle]

\* the outputs outs of objective i are allocated (where new) and encoded
EncodeOuts(st, i, outs) ==
    The({[WithVars(st, r) EXCEPT !.encoded = @ \cup {<<i, v>> : v \in outs}] :
            r \in {ReserveOuts(i, SetToSeq(outs), st.var_manager, st.enc_vars)}})

\* encoding.encode_ub_change(k..k+1): allocates and encodes the outputs that
\* enforce_ub(k) assumes
encode_ub_change(st, i, k) == EncodeOuts(st, i, UbOuts(obj_encs[i], k))

\* encoding.enforce_ub(k): the assumptions that force cost_i <= k
enforce_ub(st, i, k) == {-st.enc_vars[<<i, v>>] : v \in UbOuts(obj_encs[i], k)}

\* A faulty enforce_dominating that assumes nothing.
EnforceNothing(st, cs) == [st |-> st, assumps |-> {}]

RECURSIVE EnforceFrom(_, _, _, _)
\* "Extend assumptions"
EnforceExtend(st, cs, i, as) ==
    The({EnforceFrom(st, cs, i + 1, a) : a \in {as \cup enforce_ub(st, i, cs[i])}})

EnforceFrom(st, cs, i, as) ==
    IF i > Len(cs) THEN [st |-> st, assumps |-> as]
    ELSE IF obj_encs[i].kind = "Constant" THEN EnforceFrom(st, cs, i + 1, as)
    ELSE The({EnforceExtend(e, cs, i, as) : e \in {encode_ub_change(st, i, cs[i])}})

\* enforce_dominating
enforce_dominating(st, cs) == EnforceFrom(st, cs, 1, {})

\* dominated_block_clause: "Add one enforcing assumption to clause"
BlockAssumps(st, as) ==
    IF Cardinality(as) = 1
    THEN [st |-> st, lit |-> CHOOSE a \in as : TRUE]
    ELSE [st |-> [st EXCEPT !.var_manager = @ + 1,
                            !.tseitin = @ @@ ((st.var_manager + 1) :> as)],
          lit |-> st.var_manager + 1]

BlockEncoded(st, i, k) == The({BlockAssumps(st, as) : as \in {enforce_ub(st, i, k)}})

\* dominated_block_clause, the closure for an objective i with cs[i] > 0
BlockLit(st, cs, i) ==
    The({BlockEncoded(e, i, cs[i] - 1) : e \in {encode_ub_change(st, i, cs[i] - 1)}})

RECURSIVE BlockFrom(_, _, _, _)
BlockAdd(r, cs, i, clause) == BlockFrom(r.st, cs, i + 1, clause \cup {r.lit})

BlockFrom(st, cs, i, clause) ==
    IF i > Len(cs) THEN [st |-> st, clause |-> clause]
    ELSE IF cs[i] = 0 \/ obj_encs[i].kind = "Constant"
    THEN BlockFrom(st, cs, i + 1, clause)
    ELSE The({BlockAdd(r, cs, i, clause) : r \in {BlockLit(st, cs, i)}})

\* A faulty dominated_block_clause that stops after the first objective.
BlockFirstOnly(st, cs) ==
    IF cs[1] = 0 \/ obj_encs[1].kind = "Constant" THEN [st |-> st, clause |-> {}]
    ELSE The({[st |-> r.st, clause |-> {r.lit}] : r \in {BlockLit(st, cs, 1)}})

\* dominated_block_clause
dominated_block_clause(st, cs) == BlockFrom(st, cs, 1, {})

\* A faulty tmp_block_dominated that takes the newest variable as its switch.
SwitchReused(r) ==
    [st |-> [r.st EXCEPT !.oracle = @ \cup {r.clause \cup {r.st.var_manager}}],
     lit |-> Not(r.st.var_manager)]

\* tmp_block_dominated, lines 677-680, on the result r of dominated_block_clause
SwitchBlock(r) ==
    [st |-> [r.st EXCEPT !.var_manager = @ + 1,
                         !.oracle = @ \cup {r.clause \cup {r.st.var_manager + 1}}],
     lit |-> Not(r.st.var_manager + 1)]

\* tmp_block_dominated
tmp_block_dominated(st, cs) ==
    The({SwitchBlock(r) : r \in {dominated_block_clause(st, cs)}})

\* add_clause / add_unit on the oracle of st
AddClause(st, clause) == [st EXCEPT !.oracle = @ \cup {clause}]

\* block_pareto_mcs
block_pareto_mcs(sol) ==
    UNION {{Not(obj_encs[i].lits[k][1]) :
               k \in {j \in DOMAIN obj_encs[i].lits : LitTrue(obj_encs[i].lits[j][1], sol)}} :
           i \in DOMAIN obj_encs}

\* default_blocking_clause: the negation of every literal of the assignment
block_clause_gen(sol) ==
    {IF v \in sol THEN -v ELSE v : v \in 1 .. max_orig_var}

\* A faulty externalize_internal_costs that leaves the costs internal.
InternalCosts(cs) == cs

\* externalize_internal_costs
externalize_internal_costs(cs) ==
    [i \in DOMAIN cs |->
        IF obj_encs[i].kind = "Weighted" THEN cs[i] + obj_encs[i].offset
        ELSE IF obj_encs[i].kind = "Unweighted"
        THEN cs[i] * obj_encs[i].unit_weight + obj_encs[i].offset
        ELSE obj_encs[i].offset]

\* Assignment::truncate
truncate(sol, max) == sol \cap (1 .. max)

\* ------------------------------------------------ tightening & learning (E)
\* A faulty scan of a clause that does not skip lit itself.
FirstTrue(cl, lit, sol) ==
    IF \A k \in DOMAIN cl : ~LitTrue(cl[k], sol) THEN None
    ELSE Some(cl[CHOOSE k \in DOMAIN cl :
                    /\ LitTrue(cl[k], sol)
                    /\ \A j \in 1 .. k - 1 : ~LitTrue(cl[j], sol)])

\* the first literal of clause cl other than lit that is true under sol
FirstTrueOther(cl, lit, sol) ==
    IF \A k \in DOMAIN cl : cl[k] = lit \/ ~LitTrue(cl[k], sol) THEN None
    ELSE Some(cl[CHOOSE k \in DOMAIN cl :
                    /\ cl[k] # lit /\ LitTrue(cl[k], sol)
                    /\ \A j \in 1 .. k - 1 : cl[j] = lit \/ ~LitTrue(cl[j], sol)])

\* find_flip_witness
find_flip_witness(lit, sol) ==
    IF \E k \in DOMAIN obj_lit_data[lit].clauses :
          FirstTrueOther(obj_clauses[obj_lit_data[lit].clauses[k]], lit, sol) = None
    THEN None
    ELSE Some({FirstTrueOther(obj_clauses[obj_lit_data[lit].clauses[k]], lit, sol)[1] :
                  k \in DOMAIN obj_lit_data[lit].clauses})

assign_lit(sol, l) == IF l > 0 THEN sol \cup {l} ELSE sol \ {-l}

\* lines 550-557: flip the literal, or count it
Tighten(l, w, tightening, acc) ==
    IF tightening
    THEN [acc EXCEPT !.sol = assign_lit(@, Not(l)), !.reduction = @ + w]
    ELSE [acc EXCEPT !.cost = @ + w]

\* A faulty learning step whose clause leaves the witness out.
WithoutWitness(l, w, tightening, learning, acc, witness) ==
    IF witness = None THEN [acc EXCEPT !.cost = @ + w]
    ELSE Tighten(l, w, tightening,
                 IF learning THEN [acc EXCEPT !.learned = @ \cup {{Not(l)}}] ELSE acc)

\* lines 541-560: a literal that is true and may be flipped, with its witness
WithWitness(l, w, tightening, learning, acc, witness) ==
    IF witness = None THEN [acc EXCEPT !.cost = @ + w]
    ELSE Tighten(l, w, tightening,
                 IF learning
                 THEN [acc EXCEPT !.learned =
                          @ \cup {{Not(x) : x \in witness[1]} \cup {Not(l)}}]
                 ELSE acc)

\* the closure of the fold of get_cost_with_heuristic_improvements;
\* acc = [cost, reduction, sol, learned]
CostStep(l, w, tightening, learning, acc) ==
    IF LitTrue(l, acc.sol)
    THEN IF (tightening \/ learning) /\ Not(l) \notin DOMAIN obj_lit_data
         THEN The({WithWitness(l, w, tightening, learning, acc, wit) :
                      wit \in {find_flip_witness(l, acc.sol)}})
         ELSE [acc EXCEPT !.cost = @ + w]
    ELSE acc

RECURSIVE CostFold(_, _, _, _)
CostFold(lits, tightening, learning, acc) ==
    IF lits = <<>> THEN acc
    ELSE The({CostFold(Tail(lits), tightening, learning, a) :
                 a \in {CostStep(Head(lits)[1], Head(lits)[2], tightening, learning, acc)}})

\* get_cost_with_heuristic_improvements for objective obj_idx
get_cost_with_heuristic_improvements(obj_idx, sol, tightening, learning) ==
    CostFold(obj_encs[obj_idx].lits, tightening, learning,
             [cost |-> 0, reduction |-> 0, sol |-> sol, learned |-> {}])

RECURSIVE CostsFrom(_, _, _, _, _)
\* get_solution_and_internal_costs: the result r of objective idx is logged
\* (the logger fails in objective failAt) and its clauses are learned
CostsNext(idx, g, tightening, learning, failAt, r) ==
    IF (tightening \/ learning) /\ failAt = idx
    THEN [g EXCEPT !.sol = r.sol, !.term = "LoggerError"]
    ELSE The({CostsFrom(idx + 1, h, tightening, learning, failAt) :
                 h \in {[g EXCEPT !.costs = Append(@, r.cost), !.sol = r.sol,
                                  !.learned = @ \cup r.learned]}})

\* the map of get_solution_and_internal_costs from objective idx on;
\* g = [costs, sol, learned, term]
CostsFrom(idx, g, tightening, learning, failAt) ==
    IF idx > Len(obj_encs) THEN g
    ELSE The({CostsNext(idx, g, tightening, learning, failAt, r) :
                 r \in {get_cost_with_heuristic_improvements(idx, g.sol, tightening,
                                                             learning)}})

\* get_solution_and_internal_costs on the oracle's model m
get_solution_and_internal_costs(phase, m, failAt) ==
    CostsFrom(1, [costs |-> <<>>, sol |-> m, learned |-> {}, term |-> "Ok"],
              wanted(opts.solution_tightening, phase),
              wanted(opts.tightening_clauses, phase), failAt)

\* ------------------------------------------------------ logging / limits (G)
\* A run record r = [stats, lims, term] threads the statistics, the limits and
\* the Result through the log functions ("Ok" or a Termination).
Run == [stats |-> stats, lims |-> lims, term |-> "Ok"]

\* Whether the dispatch to the loggers can fail: only an attached logger can.
LogFails == IF \E k \in DOMAIN loggers : loggers[k] # None THEN BOOLEAN ELSE {FALSE}

\* usize::MAX of the narrowest usize Rust has (16 bits); a wrapped counter is
\* out of reach of every run below whatever the width
UsizeMax == 2^16 - 1

\* A faulty limit update that never counts.
NoCountdown(r, field, term) == r

\* "Update limit and check termination": `*c -= 1` on a usize, which at 0
\* panics under overflow checks and wraps around to usize::MAX without them
Countdown(r, field, term) ==
    IF r.lims[field] = None THEN r
    ELSE IF r.lims[field][1] = 0 /\ overflow_checks THEN [r EXCEPT !.term = "Panic"]
    ELSE LET n == (r.lims[field][1] - 1) % (UsizeMax + 1)
         IN [r EXCEPT !.lims[field] = Some(n),
                      !.term = IF n = 0 THEN term ELSE "Ok"]

\* log_candidate
log_candidate(r, fail) ==
    LET r1 == [r EXCEPT !.stats.n_candidates = @ + 1]
    IN IF fail THEN [r1 EXCEPT !.term = "LoggerError"]
       ELSE Countdown(r1, "candidates", "CandidatesLimit")

\* log_oracle_call
log_oracle_call(r, fail) ==
    LET r1 == [r EXCEPT !.stats.n_oracle_calls = @ + 1]
    IN IF fail THEN [r1 EXCEPT !.term = "LoggerError"]
       ELSE Countdown(r1, "oracle_calls", "OracleCallsLimit")

\* log_solution
log_solution(r, fail) ==
    LET r1 == [r EXCEPT !.stats.n_solutions = @ + 1]
    IN IF fail THEN [r1 EXCEPT !.term = "LoggerError"]
       ELSE Countdown(r1, "sols", "SolsLimit")

\* log_pareto_point
log_pareto_point(r, fail) ==
    LET r1 == [r EXCEPT !.stats.n_pareto_points = @ + 1]
    IN IF fail THEN [r1 EXCEPT !.term = "LoggerError"]
       ELSE Countdown(r1, "pps", "PPLimit")

\* check_terminator: the signals the callback can answer with
Signals == IF term_cb THEN {"Continue", "Terminate"} ELSE {"Continue"}

\* ParetoFront::add_pp
add_pp(front, pp) == Append(front, pp)

\* A faulty unphase_solution that leaves the phases.
KeepPhases(ph) == ph

\* phase_solution / unphase_solution
phase_solution(ph, sol) ==
    IF opts.solution_guided_search
    THEN Some([from |-> 1, upto |-> var_manager, sol |-> sol]) ELSE ph
\* unphase_var on the variables up to max_var: a phase above them would stay
unphase_solution(ph) ==
    IF ~opts.solution_guided_search \/ ph = None THEN ph
    ELSE IF ph[1].upto <= var_manager THEN None
    ELSE Some([ph[1] EXCEPT !.from = var_manager + 1])

\* ------------------------------------------------------------- the actions
typesVars == <<obj_args, objective, encoding, ub_res, ndoms, extended>>
constVars == <<inst, opts, obj_encs, obj_clauses, blits, obj_lit_data, max_orig_var,
               loggers, logger_ids, term_cb, oracle_term, overflow_checks, typesVars>>
encVars == <<var_manager, enc_vars, encoded, tseitin>>
locals == <<costs, solution, block_switch, assumps, pareto_point>>

NoPoint == [costs |-> <<>>, sols |-> <<>>]

\* solve returns term: the locals of alg_main die
Return(term) ==
    /\ pc' = "idle"
    /\ ret' = Some(term)
    /\ costs' = <<>>
    /\ solution' = {}
    /\ block_switch' = None
    /\ assumps' = {}
    /\ pareto_point' = NoPoint

SetCur(st) ==
    /\ var_manager' = st.var_manager
    /\ enc_vars' = st.enc_vars
    /\ encoded' = st.encoded
    /\ tseitin' = st.tseitin
    /\ oracle' = st.oracle

SetRun(r) == stats' = r.stats /\ lims' = r.lims

\* A faulty empty-encoding case that does not look at the front.
EmptyEncodingAgain(r0, fs, fp) ==
    \E r1 \in {log_solution(r0, fs)} :
        IF r1.term # "Ok"
        THEN SetRun(r1) /\ Return(r1.term) /\ UNCHANGED pareto_front
        ELSE \E r2 \in {log_pareto_point(r1, fp)} :
             /\ SetRun(r2)
             /\ IF r2.term # "Ok"
                THEN Return(r2.term) /\ UNCHANGED pareto_front
                ELSE /\ pareto_front' =
                           add_pp(pareto_front,
                                  [costs |-> [i \in DOMAIN obj_encs |-> obj_encs[i].offset],
                                   sols |-> <<{}>>])
                     /\ Return("Ok")

\* alg_main, lines 340-349: the edge case of an empty encoding
EmptyEncoding(r0, fs, fp) ==
    IF pareto_front # <<>>
    THEN SetRun(r0) /\ Return("Ok") /\ UNCHANGED pareto_front
    ELSE \E r1 \in {log_solution(r0, fs)} :
         IF r1.term # "Ok"
         THEN SetRun(r1) /\ Return(r1.term) /\ UNCHANGED pareto_front
         ELSE \E r2 \in {log_pareto_point(r1, fp)} :
              /\ SetRun(r2)
              /\ IF r2.term # "Ok"
                 THEN Return(r2.term) /\ UNCHANGED pareto_front
                 ELSE /\ pareto_front' =
                            add_pp(pareto_front,
                                   [costs |-> [i \in DOMAIN obj_encs |-> obj_encs[i].offset],
                                    sols |-> <<{}>>])
                      /\ Return("Ok")

\* solve, and alg_main up to its loop (lines 191-195, 337-349)
Solve(limits) ==
    /\ pc = "idle"
    /\ \E fs \in LogFails, fp \in LogFails,
          r0 \in {[stats |-> [stats EXCEPT !.n_solve_calls = @ + 1],
                   lims |-> limits, term |-> "Ok"]} :
        IF max_orig_var = 0
        THEN EmptyEncoding(r0, fs, fp)
        ELSE /\ SetRun(r0)
             /\ pc' = "outer"
             /\ UNCHANGED <<pareto_front, locals, ret>>
    /\ call' = [lims |-> limits, stats |-> stats, front |-> pareto_front]
    /\ last_res' = None
    /\ polled' = FALSE
    /\ UNCHANGED <<constVars, encVars, oracle, phased>>

\* alg_main, lines 352-359: the OuterLoop oracle call
OuterSolve ==
    /\ pc = "outer"
    /\ \E res \in SolverResults({}), fail \in LogFails, sig \in Signals :
       \E r \in {log_oracle_call(Run, fail)} :
        /\ SetRun(r)
        /\ IF r.term # "Ok" THEN Return(r.term)
           ELSE IF res = "Unsat" THEN Return("Ok")
           ELSE IF res = "Interrupted" \/ sig = "Terminate" THEN Return("Callback")
           ELSE /\ pc' = "outer_cand"
                /\ assumps' = {}
                /\ UNCHANGED <<costs, solution, block_switch, pareto_point, ret>>
        /\ last_res' = Some([phase |-> "OuterLoop", res |-> res])
    /\ polled' = (pc' = "outer_cand" /\ term_cb)
    /\ UNCHANGED <<constVars, encVars, oracle, phased, pareto_front, call>>

\* log_candidate, check_terminator and phase_solution on the candidate g
LogCandidate(g, phase, r, sig) ==
    /\ SetRun(r)
    /\ IF r.term # "Ok"
       THEN Return(r.term) /\ UNCHANGED phased
       ELSE IF sig = "Terminate"
       THEN Return("Callback") /\ UNCHANGED phased
       ELSE /\ phased' = phase_solution(phased, g.sol)
            /\ costs' = g.costs
            /\ solution' = g.sol
            /\ block_switch' = IF phase = "OuterLoop" THEN None ELSE block_switch
            /\ pc' = "min_block"
            /\ UNCHANGED <<assumps, pareto_point, ret>>

\* get_solution_and_internal_costs, log_candidate, check_terminator and
\* phase_solution on a Sat answer: alg_main lines 362-366 (phase OuterLoop,
\* entering p_minimization) and p_minimization lines 416-419 (Minimization)
Candidate(at, phase) ==
    /\ pc = at
    /\ \E m \in Models(assumps), failAt \in 0 .. Len(obj_encs), fail \in LogFails,
          sig \in Signals :
        /\ failAt # 0 => TRUE \in LogFails
        /\ \E g \in {get_solution_and_internal_costs(phase, m, failAt)} :
            /\ oracle' = oracle \cup g.learned
            /\ IF g.term # "Ok"
               THEN Return(g.term) /\ UNCHANGED <<stats, lims, phased>>
               ELSE LogCandidate(g, phase, log_candidate(Run, fail), sig)
    /\ polled' = (pc' = "min_block" /\ term_cb)
    /\ UNCHANGED <<constVars, encVars, pareto_front, call, last_res>>

OuterCandidate == Candidate("outer_cand", "OuterLoop")
MinCandidate == Candidate("min_cand", "Minimization")

\* p_minimization, lines 389-402, after enforce_dominating gave e
BlockDominated(e) ==
    IF opts.enumeration.mode = "NoEnum"
    THEN \E b \in {dominated_block_clause(e.st, costs)} :
            /\ SetCur(AddClause(b.st, b.clause))
            /\ assumps' = e.assumps
            /\ UNCHANGED block_switch
    ELSE \E t \in {tmp_block_dominated(IF block_switch # None
                                       THEN AddClause(e.st, {block_switch[1]})
                                       ELSE e.st, costs)} :
            /\ SetCur(t.st)
            /\ block_switch' = Some(t.lit)
            /\ assumps' = e.assumps \cup {t.lit}

\* p_minimization, lines 387-402: dominance assumptions and dominated block
MinBlock ==
    /\ pc = "min_block"
    /\ BlockDominated(enforce_dominating(Cur, costs))
    /\ pc' = "min_solve"
    /\ UNCHANGED <<constVars, phased, pareto_front, stats, lims, costs, solution,
                   pareto_point, ret, call, last_res, polled>>

\* p_minimization, lines 405-414: the Minimization oracle call
MinSolve ==
    /\ pc = "min_solve"
    /\ \E res \in SolverResults(assumps), fail \in LogFails, sig \in Signals :
       \E r \in {log_oracle_call(Run, fail)} :
        /\ last_res' = Some([phase |-> "Minimization", res |-> res])
        /\ IF res = "Interrupted"
           THEN Return("Callback") /\ UNCHANGED <<stats, lims>>
           ELSE /\ SetRun(r)
                /\ IF r.term # "Ok" THEN Return(r.term)
                   ELSE IF res = "Unsat"
                   THEN pc' = "enum_start" /\ UNCHANGED <<locals, ret>>
                   ELSE IF sig = "Terminate" THEN Return("Callback")
                   ELSE pc' = "min_cand" /\ UNCHANGED <<locals, ret>>
    /\ polled' = (pc' = "min_cand" /\ term_cb)
    /\ UNCHANGED <<constVars, encVars, oracle, phased, pareto_front, call>>

\* enumerate_at_pareto_point, lines 430-439
EnumStart ==
    /\ pc = "enum_start"
    /\ \E e \in {enforce_dominating(Cur, costs)} :
          /\ SetCur(e.st)
          /\ assumps' = e.assumps
    /\ phased' = unphase_solution(phased)
    /\ pareto_point' = [costs |-> externalize_internal_costs(costs), sols |-> <<>>]
    /\ solution' = truncate(solution, max_orig_var)
    /\ pc' = "enum_sol"
    /\ UNCHANGED <<constVars, pareto_front, stats, lims, costs, block_switch, ret,
                   call, last_res, polled>>

\* A faulty per-point limit test that never sees the limit.
PointLimitNever(pp) == opts.enumeration.mode = "NoEnum"

\* the per-point limit test of lines 453-458
PointLimitHit(pp) ==
    \/ opts.enumeration.mode = "NoEnum"
    \/ /\ opts.enumeration.limit # None
       /\ Len(pp.sols) >= opts.enumeration.limit[1]

\* A faulty end of a point that loses the front on a termination.
FinishPointLosing(pp, r, term) ==
    /\ SetRun(r)
    /\ IF r.term # "Ok" THEN pareto_front' = <<>> /\ Return(r.term)
       ELSE IF term # "Ok" THEN pareto_front' = <<>> /\ Return(term)
       ELSE /\ pareto_front' = add_pp(pareto_front, pp)
            /\ pc' = "commit"
            /\ pareto_point' = NoPoint
            /\ UNCHANGED <<costs, solution, block_switch, assumps, ret>>

\* A faulty end of a point that does not add the point on a termination.
FinishPointNoAdd(pp, r, term) ==
    /\ SetRun(r)
    /\ IF r.term # "Ok" THEN UNCHANGED pareto_front /\ Return(r.term)
       ELSE IF term # "Ok" THEN UNCHANGED pareto_front /\ Return(term)
       ELSE /\ pareto_front' = add_pp(pareto_front, pp)
            /\ pc' = "commit"
            /\ pareto_point' = NoPoint
            /\ UNCHANGED <<costs, solution, block_switch, assumps, ret>>

\* lines 447-450 and 459-461: log the point pp, add it to the front, and
\* return: to the caller of solve on a termination, else to alg_main
FinishPoint(pp, r, term) ==
    /\ SetRun(r)
    /\ pareto_front' = IF r.term = "Panic" THEN pareto_front ELSE add_pp(pareto_front, pp)
    /\ IF r.term # "Ok" THEN Return(r.term)
       ELSE IF term # "Ok" THEN Return(term)
       ELSE /\ pc' = "commit"
            /\ pareto_point' = NoPoint
            /\ UNCHANGED <<costs, solution, block_switch, assumps, ret>>

\* "Block last solution"
BlockSolution(sol) ==
    IF opts.enumeration.mode = "Solutions" THEN block_clause_gen(sol)
    ELSE block_pareto_mcs(sol)

\* enumerate_at_pareto_point, lines 443-472: record the solution, then block it
EnumSol ==
    /\ pc = "enum_sol"
    /\ \E fs \in LogFails, fp \in LogFails, sig \in Signals :
       \E pp \in {[pareto_point EXCEPT !.sols = Append(@, solution)]},
          r1 \in {log_solution(Run, fs)} :
        IF r1.term = "Panic"
        THEN SetRun(r1) /\ Return("Panic") /\ UNCHANGED <<pareto_front, oracle>>
        ELSE IF r1.term # "Ok"
        THEN /\ FinishPoint(pp, log_pareto_point([r1 EXCEPT !.term = "Ok"], fp), r1.term)
             /\ UNCHANGED oracle
        ELSE IF PointLimitHit(pp)
        THEN /\ FinishPoint(pp, log_pareto_point(r1, fp), "Ok")
             /\ UNCHANGED oracle
        ELSE /\ SetRun(r1)
             /\ UNCHANGED pareto_front
             /\ IF sig = "Terminate"
                THEN Return("Callback") /\ UNCHANGED oracle
                ELSE /\ oracle' = oracle \cup {BlockSolution(solution)}
                     /\ pareto_point' = pp
                     /\ pc' = "enum_solve"
                     /\ UNCHANGED <<costs, solution, block_switch, assumps, ret>>
    /\ polled' = IF pc' = "enum_solve" THEN term_cb ELSE pc' = "commit" /\ polled
    /\ UNCHANGED <<constVars, encVars, phased, call, last_res>>

\* enumerate_at_pareto_point, lines 475-490: the Enumeration oracle call
EnumSolve ==
    /\ pc = "enum_solve"
    /\ \E res \in SolverResults(assumps), fo \in LogFails, fp \in LogFails,
          sig \in Signals :
       \E r \in {log_oracle_call(Run, fo)} :
        /\ last_res' = Some([phase |-> "Enumeration", res |-> res])
        /\ IF res = "Interrupted"
           THEN Return("Callback") /\ UNCHANGED <<stats, lims, pareto_front>>
           ELSE IF r.term # "Ok"
           THEN SetRun(r) /\ Return(r.term) /\ UNCHANGED pareto_front
           ELSE IF res = "Unsat"
           THEN FinishPoint(pareto_point, log_pareto_point(r, fp), "Ok")
           ELSE /\ SetRun(r)
                /\ UNCHANGED pareto_front
                /\ IF sig = "Terminate" THEN Return("Callback")
                   ELSE /\ solution' \in Models(assumps)
                        /\ pc' = "enum_sol"
                        /\ UNCHANGED <<costs, block_switch, assumps, pareto_point, ret>>
    /\ polled' = (pc' = "enum_sol" /\ term_cb)
    /\ UNCHANGED <<constVars, encVars, oracle, phased, call>>

\* A faulty commit that forgets the unit clause.
CommitDropped ==
    /\ pc = "commit"
    /\ pc' = "outer"
    /\ costs' = <<>>
    /\ solution' = {}
    /\ block_switch' = None
    /\ assumps' = {}
    /\ UNCHANGED <<constVars, encVars, oracle, phased, pareto_front, stats, lims,
                   pareto_point, ret, call, last_res, polled>>

\* alg_main, lines 370-373: commit the retractable block of the finished point
Commit ==
    /\ pc = "commit"
    /\ oracle' = IF block_switch # None THEN oracle \cup {{block_switch[1]}} ELSE oracle
    /\ pc' = "outer"
    /\ costs' = <<>>
    /\ solution' = {}
    /\ block_switch' = None
    /\ assumps' = {}
    /\ UNCHANGED <<constVars, encVars, phased, pareto_front, stats, lims,
                   pareto_point, ret, call, last_res, polled>>

\* Largest number of attach_logger calls.
MaxAttach == 4

\* A faulty attach_logger that never fills a hole.
attach_at_end(ls, lg) == [loggers |-> Append(ls, Some(lg)), id |-> Len(ls)]

\* attach_logger: the slots after attaching the logger lg, and the id returned
\* (ids count from 0, the slots of the sequence from 1)
attach_logger(ls, lg) ==
    LET holes == {k \in DOMAIN ls : ls[k] = None}
    IN IF holes # {}
       THEN [loggers |-> [ls EXCEPT ![The(Least(holes))] = Some(lg)],
             id |-> The(Least(holes)) - 1]
       ELSE [loggers |-> Append(ls, Some(lg)), id |-> Len(ls)]

\* detach_logger: the slots after detaching id, and the logger returned
detach_logger(ls, id) ==
    IF id >= Len(ls) THEN [loggers |-> ls, logger |-> None]
    ELSE [loggers |-> [ls EXCEPT ![id + 1] = None], logger |-> ls[id + 1]]

loggerFrame ==
    <<inst, opts, var_manager, obj_encs, obj_clauses, blits, obj_lit_data,
      max_orig_var, enc_vars, encoded, tseitin, oracle, phased, oracle_term,
      pareto_front, stats, lims, term_cb, pc, costs, solution, block_switch,
      assumps, pareto_point, ret, call, last_res, polled, overflow_checks,
      typesVars>>

\* a caller attaches its next logger, named by the number of the call
AttachLogger ==
    /\ pc = "idle"
    /\ Len(logger_ids) < MaxAttach
    /\ \E r \in {attach_logger(loggers, Len(logger_ids) + 1)} :
          /\ loggers' = r.loggers
          /\ logger_ids' = Append(logger_ids, r.id)
    /\ UNCHANGED loggerFrame

\* a caller detaches the id it names
DetachLogger ==
    /\ pc = "idle"
    /\ \E id \in 0 .. MaxAttach : loggers' = detach_logger(loggers, id).loggers
    /\ UNCHANGED <<logger_ids, loggerFrame>>

termFrame ==
    <<inst, opts, var_manager, obj_encs, obj_clauses, blits, obj_lit_data,
      max_orig_var, enc_vars, encoded, tseitin, oracle, phased, pareto_front,
      stats, lims, loggers, logger_ids, pc, costs, solution, block_switch,
      assumps, pareto_point, ret, call, last_res, polled, overflow_checks,
      typesVars>>

\* attach_terminator: the callback goes to the solver and to the oracle
AttachTerminator ==
    /\ pc = "idle"
    /\ term_cb' = TRUE
    /\ oracle_term' = TRUE
    /\ UNCHANGED termFrame

\* detach_terminator: the solver forgets the callback, the oracle keeps it
DetachTerminator ==
    /\ pc = "idle"
    /\ term_cb' = FALSE
    /\ UNCHANGED <<oracle_term, termFrame>>

\* ------------------------------------------------ shared types (types.rs)
\* Largest number of (literal, weight) pairs handed to Objective::new.
MaxLits == 3
\* Largest upper bound handed to the adapter's enforce_ub.
MaxUb == 3

\* A faulty Objective::new that takes every non-empty list as weighted.
NewWeighted(lits, offset) ==
    IF lits = <<>> THEN [kind |-> "Constant", offset |-> offset]
    ELSE [kind |-> "Weighted", offset |-> offset,
          lits |-> [l \in {lits[k][1] : k \in DOMAIN lits} |->
                      lits[CHOOSE k \in DOMAIN lits : lits[k][1] = l][2]]]

\* lits.into_iter().collect() into RsHashMap<Lit, usize>: every pair is
\* inserted, a later pair of a literal replaces the earlier one
CollectMap(lits) ==
    [l \in {lits[k][1] : k \in DOMAIN lits} |->
        lits[CHOOSE k \in DOMAIN lits :
                /\ lits[k][1] = l
                /\ \A j \in DOMAIN lits : lits[j][1] = l => j <= k][2]]

\* Objective::new
Objective_new(lits, offset) ==
    IF lits = <<>> THEN [kind |-> "Constant", offset |-> offset]
    ELSE IF \E k \in DOMAIN lits : lits[k][2] # lits[1][2]
    THEN [kind |-> "Weighted", offset |-> offset, lits |-> CollectMap(lits)]
    ELSE [kind |-> "Unweighted", offset |-> offset, unit_weight |-> lits[1][2],
          lits |-> [k \in DOMAIN lits |-> lits[k][1]]]

\* A faulty adapter that hands the bound to its encoder as it is.
EnforceUbRaw(e, ub) ==
    IF e.kind = "Constant" THEN [res |-> "Ok", assumps |-> {}, forwarded |-> None]
    ELSE [res |-> "Ok", assumps |-> UbOuts(e, ub), forwarded |-> Some(ub)]

\* ObjEncoding::enforce_ub of the adapter e = [kind, offset, lits]: the Result,
\* the outputs assumed false, and the bound its encoder was asked for (None:
\* the encoder was not called)
ObjEncoding_enforce_ub(e, ub) ==
    IF e.kind = "Constant" THEN [res |-> "Ok", assumps |-> {}, forwarded |-> None]
    ELSE IF ub >= e.offset
    THEN [res |-> "Ok", assumps |-> UbOuts(e, ub - e.offset),
          forwarded |-> Some(ub - e.offset)]
    ELSE [res |-> "Unsat", assumps |-> {}, forwarded |-> None]

\* ------------------------------------------------------- the specifications
NoLimits == [oracle_calls |-> None, candidates |-> None, sols |-> None, pps |-> None]

\* the limits a solve call is given: none, one limit of 1..MaxLimit, or a
\* limit of 1 on the solutions and the Pareto points
LimitChoices ==
    {NoLimits, [NoLimits EXCEPT !.sols = Some(1), !.pps = Some(1)]} \cup
    {[NoLimits EXCEPT ![f] = Some(n)] :
        f \in {"oracle_calls", "candidates", "sols", "pps"}, n \in 1 .. MaxLimit}

EnumModes ==
    {[mode |-> "NoEnum", limit |-> None]} \cup
    {[mode |-> md, limit |-> lim] :
        md \in {"Solutions", "PMCSs"},
        lim \in {None} \cup {Some(n) : n \in 1 .. MaxEnumLimit}}

Whens == {{}, {"OuterLoop"}, {"OuterLoop", "Minimization"}}

OptionSet ==
    [enumeration : EnumModes, solution_tightening : Whens, tightening_clauses : Whens,
     reserve_enc_vars : {FALSE}, solution_guided_search : BOOLEAN]

\* init_with_options on an instance of I with options of O; loggers of L and a
\* terminator (T) attached before the first solve call; built under a profile of B
SolverBuilt(I, O, L, T, B) ==
    /\ overflow_checks \in B
    /\ inst \in I
    /\ opts \in O
    /\ \E s \in {init(inst, opts)} :
          /\ var_manager = s.var_manager
          /\ obj_encs = s.obj_encs
          /\ obj_clauses = s.obj_clauses
          /\ blits = s.blits
          /\ obj_lit_data = s.obj_lit_data
          /\ max_orig_var = s.max_orig_var
          /\ enc_vars = s.enc_vars
          /\ oracle = s.cnf
          /\ stats = [n_objs |-> s.n_objs, n_orig_clauses |-> s.n_orig_clauses,
                      n_solve_calls |-> 0, n_oracle_calls |-> 0, n_candidates |-> 0,
                      n_solutions |-> 0, n_pareto_points |-> 0]
    /\ encoded = {}
    /\ tseitin = <<>>
    /\ phased = None
    /\ pareto_front = <<>>
    /\ lims = NoLimits
    /\ loggers \in L
    /\ term_cb \in T
    /\ oracle_term = term_cb
    /\ pc = "idle"
    /\ costs = <<>>
    /\ solution = {}
    /\ block_switch = None
    /\ assumps = {}
    /\ pareto_point = NoPoint
    /\ ret = None
    /\ call = [lims |-> NoLimits, stats |-> stats, front |-> <<>>]
    /\ last_res = None
    /\ polled = FALSE
    /\ logger_ids = [k \in DOMAIN loggers |-> k - 1]

\* the same where no counter is given a limit of 0, so that the build profile
\* makes no difference
SolverWith(I, O, L, T) == SolverBuilt(I, O, L, T, {FALSE})

\* no value of the shared types under construction beside the solver
TypesIdle ==
    /\ obj_args = [lits |-> <<>>, offset |-> 0]
    /\ objective = None
    /\ encoding = [kind |-> "Constant"]
    /\ ub_res = None
    /\ ndoms = <<>>
    /\ extended = None

InitWith(I, O, L, T) == SolverWith(I, O, L, T) /\ TypesIdle

Steps ==
    \/ OuterSolve
    \/ OuterCandidate
    \/ MinBlock
    \/ MinSolve
    \/ MinCandidate
    \/ EnumStart
    \/ EnumSol
    \/ EnumSolve
    \/ Commit

\* One solve call without limits, loggers or terminator.
SolveOnce == stats.n_solve_calls = 0 /\ Solve(NoLimits)
Init == InitWith(Instances, OptionSet, {<<>>}, {FALSE})
Next == SolveOnce \/ Steps
Spec == Init /\ [][Next]_vars
\* the solver runs until solve returns

\* One solve call in the modes without a per-point limit; a step of the solver
\* that is possible is eventually taken.
NoLimitModes == {e \in EnumModes : e.limit = None}
FairInit ==
    InitWith(Instances, {o \in OptionSet : o.enumeration \in NoLimitModes}, {<<>>}, {FALSE})
FairSpec == FairInit /\ [][Next]_vars /\ WF_vars(Next)

\* Several solve calls on one solver: a bare solver, or one with a logger
\* (whose writes can fail) and a termination callback attached.  Every call of
\* a bare solver and the first call of any solver is given one of LimitChoices;
\* a solver with a logger and a terminator is resumed without limits.
RunsInstances == {TradeOff, TwoSols, EmptyInst}
RunsOptions ==
    [enumeration : EnumModes, solution_tightening : {{}}, tightening_clauses : {{}},
     reserve_enc_vars : {FALSE}, solution_guided_search : {FALSE}]
CallLimits ==
    IF (loggers = <<>> /\ ~term_cb) \/ stats.n_solve_calls = 0
    THEN LimitChoices ELSE {NoLimits}
SolveAgain == stats.n_solve_calls < MaxSolveCalls /\ \E l \in CallLimits : Solve(l)
RunsInit ==
    \/ InitWith(RunsInstances, RunsOptions, {<<>>}, {FALSE})
    \/ InitWith(RunsInstances, RunsOptions, {<<Some("log")>>}, {TRUE})
RunsNext == SolveAgain \/ Steps
RunsSpec == RunsInit /\ [][RunsNext]_vars

\* One solve call in every enumeration mode, the per-point limit 0 included.
EnumModes0 ==
    EnumModes \cup {[mode |-> md, limit |-> Some(0)] : md \in {"Solutions", "PMCSs"}}
PointInstances == {TradeOff, FreeVar, TwoSols}
PointOptions ==
    [enumeration : EnumModes0, solution_tightening : {{}}, tightening_clauses : {{}},
     reserve_enc_vars : {FALSE}, solution_guided_search : {FALSE}]
PointInit == InitWith(PointInstances, PointOptions, {<<>>}, {FALSE})
PointSpec == PointInit /\ [][Next]_vars

\* One solve call with the heuristic improvements wanted in no phase, in the
\* OuterLoop, or in the OuterLoop and the Minimization.
TightenInstances == {Chained, SharedLit, SoftClause, TradeOff, BothSigns}
TightenOptions ==
    [enumeration : {e \in EnumModes : e.limit = None /\ e.mode # "PMCSs"},
     solution_tightening : Whens, tightening_clauses : Whens,
     reserve_enc_vars : {FALSE}, solution_guided_search : {FALSE}]
TightenInit == InitWith(TightenInstances, TightenOptions, {<<>>}, {FALSE})
TightenSpec == TightenInit /\ [][Next]_vars

RECURSIVE DomFrom(_, _, _, _)
\* the loop of check_dominated from component i on, dom as the loop holds it
DomFrom(c1, c2, i, dom) ==
    IF i > Len(c1) \/ i > Len(c2) THEN dom # 0
    ELSE IF c1[i] < c2[i]
    THEN (IF dom <= 0 THEN DomFrom(c1, c2, i + 1, -1) ELSE FALSE)
    ELSE IF c2[i] < c1[i]
    THEN (IF dom >= 0 THEN DomFrom(c1, c2, i + 1, 1) ELSE FALSE)
    ELSE DomFrom(c1, c2, i + 1, dom)

\* the closure check_dominated of ParetoFront::extend
check_dominated(c1, c2) == DomFrom(c1, c2, 1, 0)

RECURSIVE ExtendFrom(_, _, _)
\* the loop of ParetoFront::extend over the rest of the batch: a failed
\* debug_assert ends the call
ExtendFrom(nd, cost_set, batch) ==
    IF batch = <<>> THEN [ndoms |-> nd, completed |-> TRUE]
    ELSE IF \/ \E cost \in cost_set : check_dominated(Head(batch).costs, cost)
            \/ Head(batch).costs \in cost_set
    THEN [ndoms |-> nd, completed |-> FALSE]
    ELSE ExtendFrom(Append(nd, Head(batch)), cost_set, Tail(batch))

\* ParetoFront::extend; check: debug_assertions and feature check-non-dominance
ParetoFront_extend(nd, batch, check) ==
    IF check
    THEN ExtendFrom(nd, {nd[k].costs : k \in DOMAIN nd}, batch)
    ELSE [ndoms |-> nd \o batch, completed |-> TRUE]

\* The shared types on their own: Objective::new on a list of at most MaxLits
\* pairs, and enforce_ub calls on an adapter with an offset.
WLits == {1, -2} \X (0 .. 2)
ObjArgs ==
    [lits : UNION {[1 .. n -> WLits] : n \in 0 .. MaxLits}, offset : {-1, 4}]
Encodings ==
    {[kind |-> "Constant"]} \cup
    {[kind |-> "Weighted", offset |-> o, lits |-> <<<<1, 1>>, <<2, 2>>>>] : o \in 0 .. 2} \cup
    {[kind |-> "Unweighted", offset |-> o, lits |-> <<<<1, 1>>, <<2, 1>>>>] : o \in 0 .. 2}
NewObjective ==
    /\ objective = None
    /\ objective' = Some(Objective_new(obj_args.lits, obj_args.offset))
    /\ UNCHANGED <<obj_args, encoding, ub_res, ndoms, extended>>
EnforceUb ==
    /\ \E ub \in 0 .. MaxUb :
          ub_res' = Some([ub |-> ub, out |-> ObjEncoding_enforce_ub(encoding, ub)])
    /\ UNCHANGED <<obj_args, objective, encoding, ndoms, extended>>
solverVars == <<inst, opts, var_manager, obj_encs, obj_clauses, blits, obj_lit_data,
                max_orig_var, enc_vars, encoded, tseitin, oracle, phased, oracle_term,
                pareto_front, stats, lims, loggers, term_cb, pc, costs, solution,
                block_switch, assumps, pareto_point, ret, call, last_res, polled,
                logger_ids, overflow_checks>>
TypesInit ==
    /\ SolverWith({EmptyInst}, {o \in RunsOptions : o.enumeration.mode = "NoEnum"},
                  {<<>>}, {FALSE})
    /\ obj_args \in ObjArgs
    /\ objective = None
    /\ encoding \in Encodings
    /\ ub_res = None
    /\ ndoms = <<>>
    /\ extended = None
TypesNext == (NewObjective \/ EnforceUb) /\ UNCHANGED solverVars
TypesSpec == TypesInit /\ [][TypesNext]_vars

\* ParetoFront::extend with batches of at most MaxBatch points of two costs in
\* 0 .. MaxCost, on a front of at most MaxFront points, with and without the
\* non-dominance check compiled in.
MaxBatch == 2
MaxCost == 1
MaxFront == 3
CostTuples == [1 .. 2 -> 0 .. MaxCost]
Batches ==
    UNION {[1 .. n -> {[costs |-> c, sols |-> <<{}>>] : c \in CostTuples}] :
              n \in 0 .. MaxBatch}
Extend ==
    /\ IF extended = None THEN TRUE ELSE extended[1].completed
    /\ \E batch \in Batches, check \in BOOLEAN :
          /\ Len(ndoms) + Len(batch) <= MaxFront
          /\ \E r \in {ParetoFront_extend(ndoms, batch, check)} :
                /\ ndoms' = r.ndoms
                /\ extended' = Some([before |-> ndoms, batch |-> batch,
                                     check |-> check, completed |-> r.completed])
    /\ UNCHANGED <<obj_args, objective, encoding, ub_res>>
ExtendInit == InitWith({EmptyInst}, {o \in RunsOptions : o.enumeration.mode = "NoEnum"},
                       {<<>>}, {FALSE})
ExtendNext == Extend /\ UNCHANGED solverVars
ExtendSpec == ExtendInit /\ [][ExtendNext]_vars

\* One solve call with and without the encoders' variables reserved in init.
ReserveInstances == {TradeOff, TwoIndep, SoftClause, ConstObj, Repeated}
ReserveOptions ==
    [enumeration : EnumModes,
     solution_tightening : {{}}, tightening_clauses : {{}},
     reserve_enc_vars : BOOLEAN, solution_guided_search : {FALSE}]
ReserveInit == InitWith(ReserveInstances, ReserveOptions, {<<>>}, {FALSE})
ReserveSpec == ReserveInit /\ [][Next]_vars

\* Loggers are attached to and detached from an idle solver.
LoggerInit == InitWith({TradeOff}, {o \in RunsOptions : o.enumeration.mode = "NoEnum"},
                       {<<>>}, {FALSE})
LoggerNext == AttachLogger \/ DetachLogger
LoggerSpec == LoggerInit /\ [][LoggerNext]_vars

\* Several solve calls with limits on an instance with a weighted objective,
\* whose bounds take several assumption literals.
FrameOptions == {o \in RunsOptions : o.enumeration.limit = None /\ o.enumeration.mode # "PMCSs"}
FrameInit == InitWith({OffsetsWeights}, FrameOptions, {<<>>}, {FALSE})
FrameLimits ==
    {NoLimits, [NoLimits EXCEPT !.oracle_calls = Some(MaxLimit)],
     [NoLimits EXCEPT !.pps = Some(1)]}
FrameSolve == stats.n_solve_calls < MaxSolveCalls /\ \E l \in FrameLimits : Solve(l)
FrameNext == FrameSolve \/ Steps
FrameSpec == FrameInit /\ [][FrameNext]_vars

\* Solve calls without limits on a solver whose terminator is attached and
\* detached between the calls.
\* Solve calls with a limit of 0 or 1 on the counters, under both build profiles.
ZeroLimits ==
    {NoLimits, [NoLimits EXCEPT !.sols = Some(1), !.pps = Some(0)]} \cup
    {[NoLimits EXCEPT ![f] = Some(n)] :
        f \in {"oracle_calls", "candidates", "sols", "pps"}, n \in 0 .. 1}
ZeroInit ==
    /\ SolverBuilt({TradeOff, EmptyInst},
                   {o \in RunsOptions : o.enumeration.limit = None}, {<<>>}, {FALSE},
                   BOOLEAN)
    /\ TypesIdle
ZeroSolve ==
    /\ stats.n_solve_calls < MaxSolveCalls
    /\ ret # Some("Panic")
    /\ \E limits \in ZeroLimits : Solve(limits)
ZeroNext == ZeroSolve \/ Steps
ZeroSpec == ZeroInit /\ [][ZeroNext]_vars

TermInit == InitWith({TradeOff}, {o \in RunsOptions : o.enumeration.limit = None},
                     {<<>>}, {FALSE})
TermSolve == stats.n_solve_calls < MaxSolveCalls /\ Solve(NoLimits)
TermNext == AttachTerminator \/ DetachTerminator \/ TermSolve \/ Steps
TermSpec == TermInit /\ [][TermNext]_vars

\* ------------------------------------------------------------ properties
\* The instance's own semantics: the assignments of its variables that satisfy
\* the hard clauses, and the objective values of an assignment.
ClauseSat(cl, a) == \E j \in DOMAIN cl : LitTrue(cl[j], a)
OrigModels ==
    {a \in SUBSET (1 .. inst.nvars) : \A k \in DOMAIN inst.hard : ClauseSat(inst.hard[k], a)}
RECURSIVE SoftSum(_, _)
SoftSum(softs, a) ==
    IF softs = <<>> THEN 0
    ELSE (IF ClauseSat(Head(softs).cl, a) THEN 0 ELSE Head(softs).w)
         + SoftSum(Tail(softs), a)
OrigCosts(a) == [i \in DOMAIN inst.objs |-> inst.objs[i].offset + SoftSum(inst.objs[i].softs, a)]

Leq(a, b) == \A i \in DOMAIN a : a[i] <= b[i]
Done == pc = "idle" /\ ret = Some("Ok")
CostsOf(front) == {front[p].costs : p \in DOMAIN front}

\* C1: after one solve call without limits and callback that returns Ok on an
\* instance with at least one variable, no two points of the front have equal
\* or componentwise comparable cost tuples, in every enumeration mode.
C1_ParetoMinimal ==
    (Done /\ max_orig_var > 0) =>
        \A p, q \in DOMAIN pareto_front :
            p # q => ~Leq(pareto_front[p].costs, pareto_front[q].costs)
C1_Witness == Done /\ max_orig_var > 0 /\ Len(pareto_front) >= 2

LitCost(i, sol) ==
    obj_encs[i].offset +
        (IF obj_encs[i].kind = "Weighted" THEN SumW(obj_encs[i].lits, sol)
         ELSE IF obj_encs[i].kind = "Unweighted"
         THEN obj_encs[i].unit_weight
              * Cardinality({k \in DOMAIN obj_encs[i].lits :
                                LitTrue(obj_encs[i].lits[k][1], sol)})
         ELSE 0)

\* C3: the costs of every point of the front are, objective by objective, the
\* costs of each assignment stored in it.
C3_CostCorrect ==
    \A p \in DOMAIN pareto_front : \A k \in DOMAIN pareto_front[p].sols :
        \A i \in DOMAIN obj_encs :
            pareto_front[p].costs[i] = LitCost(i, pareto_front[p].sols[k])
C3_Witness ==
    \E p \in DOMAIN pareto_front :
        /\ Len(pareto_front[p].sols) >= 2
        /\ \E i \in DOMAIN obj_encs :
              obj_encs[i].kind = "Unweighted" /\ obj_encs[i].unit_weight > 1
                 /\ pareto_front[p].costs[i] > obj_encs[i].offset

UnsatAtOuterLoop == last_res = Some([phase |-> "OuterLoop", res |-> "Unsat"])

EnumerationMode == opts.enumeration.mode \in {"Solutions", "PMCSs"}

\* C4: in mode Solutions or PMCSs, while a call resumes the search after a
\* call that returned SolsLimit or PPLimit, the front never holds two points
\* with equal cost tuples.
C4_NoEqualCostsOnResume ==
    (EnumerationMode /\ pc # "idle" /\ ret \in {Some("SolsLimit"), Some("PPLimit")}) =>
        \A p, q \in DOMAIN pareto_front :
            p # q => pareto_front[p].costs # pareto_front[q].costs

IsPrefix(s, t) == Len(s) <= Len(t) /\ SubSeq(t, 1, Len(s)) = s

\* C6: every step of every solve call, whatever the call returns, leaves the
\* points of the front in place: the front only grows at its end.
C6_FrontOnlyAppended == [][IsPrefix(pareto_front, pareto_front')]_vars
C6_Witness ==
    /\ pc = "idle"
    /\ call.front # <<>>
    /\ Len(pareto_front) > Len(call.front)
    /\ ret \in {Some("Callback"), Some("OracleCallsLimit"), Some("LoggerError")}

LimitFields == {"oracle_calls", "candidates", "sols", "pps"}
StatOf(f) ==
    CASE f = "oracle_calls" -> "n_oracle_calls"
      [] f = "candidates" -> "n_candidates"
      [] f = "sols" -> "n_solutions"
      [] f = "pps" -> "n_pareto_points"
TermOf(f) ==
    CASE f = "oracle_calls" -> "OracleCallsLimit"
      [] f = "candidates" -> "CandidatesLimit"
      [] f = "sols" -> "SolsLimit"
      [] f = "pps" -> "PPLimit"
\* the events of the limit field f the current call has logged
Grew(f) == stats[StatOf(f)] - call.stats[StatOf(f)]
LoggersWork == \A k \in DOMAIN loggers : loggers[k] = None

\* C7 as stated: with loggers that do not fail, a call given a limit N on some
\* event logs at most N of them, and has returned the limit's own termination
\* once it has logged N.
C7_LimitReturnsItsTermination ==
    LoggersWork =>
        \A f \in LimitFields :
            call.lims[f] # None =>
                /\ Grew(f) <= call.lims[f][1]
                /\ Grew(f) = call.lims[f][1] => pc = "idle" /\ ret = Some(TermOf(f))

\* C7: a call given a limit N on some event logs at most N of them, and has
\* returned once it has logged N: with the limit's own termination, or with
\* LoggerError, or with PPLimit when the solutions limit was reached and the
\* Pareto point in progress was logged.
C7_LimitReturns ==
    \A f \in LimitFields :
        call.lims[f] # None =>
            /\ Grew(f) <= call.lims[f][1]
            /\ Grew(f) = call.lims[f][1] =>
                  /\ pc = "idle"
                  /\ ret \in {Some(TermOf(f)), Some("LoggerError")}
                               \cup (IF f = "sols" THEN {Some("PPLimit")} ELSE {})
C7_Witness ==
    /\ pc = "idle"
    /\ \E f \in LimitFields :
          call.lims[f] = Some(2) /\ Grew(f) = 2 /\ ret = Some(TermOf(f))

\* the solutions limit fires in this step, while a point is enumerated
SolsLimitFires ==
    pc = "enum_sol" /\ lims.sols = Some(1) /\ lims'.sols = Some(0)
PointInProgress == [pareto_point EXCEPT !.sols = Append(@, solution)]

\* C8 as stated: when the solutions limit fires while a point is enumerated,
\* solve returns SolsLimit and the point in progress, with the solutions
\* recorded so far, is appended to the front.
C8_SolsLimitReturned ==
    [][SolsLimitFires =>
          /\ pc' = "idle" /\ ret' = Some("SolsLimit")
          /\ pareto_front' = Append(pareto_front, PointInProgress)]_vars

\* C8: when the solutions limit fires while a point is enumerated, the point
\* in progress, with the solutions recorded so far, is appended to the front
\* and solve returns: SolsLimit, unless logging that point gives PPLimit or
\* LoggerError.
C8_SolsLimitAppends ==
    [][SolsLimitFires =>
          /\ pc' = "idle"
          /\ ret' \in {Some("SolsLimit"), Some("PPLimit"), Some("LoggerError")}
          /\ (lims'.pps # Some(0) /\ LoggersWork => ret' = Some("SolsLimit"))
          /\ pareto_front' = Append(pareto_front, PointInProgress)]_vars
C8_Witness ==
    /\ pc = "idle" /\ ret = Some("SolsLimit")
    /\ call.lims.sols = Some(2) /\ Grew("sols") = 2
    /\ pareto_front # <<>>
    /\ Len(pareto_front[Len(pareto_front)].sols) = 2

\* C9: when solve returns Callback during the enumeration at a point with a
\* solution recorded, the point in progress is logged as a Pareto point and
\* appended to the front.
C9_CallbackKeepsPoint ==
    [][(pc \in {"enum_sol", "enum_solve"} /\ pc' = "idle" /\ ret' = Some("Callback")) =>
          /\ stats'.n_pareto_points = stats.n_pareto_points + 1
          /\ pareto_front' =
                Append(pareto_front,
                       IF pc = "enum_sol" THEN PointInProgress ELSE pareto_point)]_vars

\* C10: on an instance without variables no oracle call is made, the front
\* never holds more than the one point of the offsets with the empty
\* assignment, and holds it after every call that returns Ok.
OffsetsPoint == [costs |-> [i \in DOMAIN inst.objs |-> inst.objs[i].offset], sols |-> <<{}>>]
C10_EmptyInstance ==
    inst.nvars = 0 =>
        /\ stats.n_oracle_calls = 0
        /\ pareto_front \in {<<>>, <<OffsetsPoint>>}
        /\ ret = Some("Ok") => pareto_front = <<OffsetsPoint>>
C10_Witness ==
    /\ inst.nvars = 0 /\ max_orig_var = 0
    /\ stats.n_solve_calls = 2 /\ call.front # <<>>
    /\ ret = Some("Ok") /\ pareto_front = <<OffsetsPoint>>

\* the number of solutions a point may store under the per-point limit, as the
\* claim states it (n) and as the test after the first solution allows (>= 1)
PointSolsWithin(front, cap) ==
    \A k \in DOMAIN front : Len(front[k].sols) >= 1 /\ Len(front[k].sols) <= cap
NoBlockInNoEnum ==
    opts.enumeration.mode = "NoEnum" /\ pc \in {"enum_sol", "enum_solve"}
        => oracle' = oracle

\* C11 as stated: every point of the front stores at least one solution;
\* exactly one in NoEnum mode, where the enumeration adds no clause to the
\* oracle; at most n in the modes with a per-point limit n, for every n.
C11_AtMostLimit ==
    [][/\ NoBlockInNoEnum
       /\ PointSolsWithin(pareto_front',
                          IF opts.enumeration.mode = "NoEnum" THEN 1
                          ELSE IF opts.enumeration.limit = None THEN 2 ^ inst.nvars
                          ELSE opts.enumeration.limit[1])]_vars

\* C11: every point of the front stores at least one solution; exactly one in
\* NoEnum mode, where the enumeration adds no clause to the oracle; at most n
\* in the modes with a per-point limit n >= 1, and one with the limit 0.
C11_PointSolutions ==
    [][/\ NoBlockInNoEnum
       /\ PointSolsWithin(pareto_front',
                          IF opts.enumeration.mode = "NoEnum" THEN 1
                          ELSE IF opts.enumeration.limit = None THEN 2 ^ inst.nvars
                          ELSE IF opts.enumeration.limit[1] = 0 THEN 1
                          ELSE opts.enumeration.limit[1])]_vars
C11_Witness ==
    /\ opts.enumeration.limit # None
    /\ opts.enumeration.limit[1] > 1
    /\ \E k \in DOMAIN pareto_front :
          Len(pareto_front[k].sols) = opts.enumeration.limit[1]

\* the objective literals that are true under sol: what block_pareto_mcs blocks
TrueObjLits(sol) ==
    {l \in UNION {{obj_encs[i].lits[k][1] : k \in DOMAIN obj_encs[i].lits} :
                     i \in DOMAIN obj_encs} : LitTrue(l, sol)}
\* the solution j of point k was recorded before the solution j2 of point k2
RecordedBefore(k, j, k2, j2) == k < k2 \/ (k = k2 /\ j < j2)

\* C12: in PMCSs mode the true objective literals of a recorded solution never
\* include all those of a solution recorded earlier, and on the trade-off
\* instance with PMCSs(Some(2)) every point records exactly one solution.
C12_NoSupersetOfEarlier ==
    opts.enumeration.mode = "PMCSs" =>
        /\ \A k \in DOMAIN pareto_front, k2 \in DOMAIN pareto_front :
             \A j \in DOMAIN pareto_front[k].sols, j2 \in DOMAIN pareto_front[k2].sols :
                RecordedBefore(k, j, k2, j2) =>
                    ~(TrueObjLits(pareto_front[k].sols[j])
                         \subseteq TrueObjLits(pareto_front[k2].sols[j2]))
        /\ inst = TradeOff /\ opts.enumeration.limit = Some(2) =>
              \A k \in DOMAIN pareto_front : Len(pareto_front[k].sols) = 1

\* the phase of the candidate that a step from outer_cand / min_cand extracts,
\* and of the candidate that min_block holds
CandidatePhase == IF pc = "outer_cand" THEN "OuterLoop" ELSE "Minimization"
TightenedPhase == last_res # None /\ wanted(opts.solution_tightening, last_res[1].phase)
\* the tightening pass over all objectives, on the assignment sol
TighteningPass(sol) ==
    CostsFrom(1, [costs |-> <<>>, sol |-> sol, learned |-> {}, term |-> "Ok"],
              TRUE, FALSE, 0)

\* C13: a second tightening pass over the assignment that a first pass
\* produced changes neither the assignment nor the cost tuple.
C13_TighteningIdempotent ==
    pc = "min_block" /\ TightenedPhase =>
        \E g \in {TighteningPass(solution)} : g.sol = solution /\ g.costs = costs

\* a step that extracts a candidate: every oracle model m that gives the
\* candidate of the step has the costs of the returned assignment, at most
\* those of m
CostsOfReturned ==
    pc \in {"outer_cand", "min_cand"} /\ pc' = "min_block" =>
        \A m \in Models(assumps) :
           \E g \in {get_solution_and_internal_costs(CandidatePhase, m, 0)} :
              (g.sol = solution' /\ g.costs = costs') =>
                  (\A i \in DOMAIN obj_encs :
                      costs'[i] = Cost(i, solution') /\ costs'[i] <= Cost(i, m))

\* C14: the internal cost that get_solution_and_internal_costs reports for an
\* objective is the objective's value under the returned assignment, and at
\* most its value under the oracle's model.
C14_CostsOfReturned == [][CostsOfReturned]_vars

\* the clauses recorded for the objective literal l in obj_lit_data
ClausesOf(l) ==
    {obj_clauses[obj_lit_data[l].clauses[k]] : k \in DOMAIN obj_lit_data[l].clauses}
\* what is asked of the answer w of find_flip_witness(l, sol)
WitnessSound(l, sol, w) ==
    /\ w # None =>
          /\ \A x \in w[1] : LitTrue(x, sol)
          /\ l \notin w[1]
          /\ \A c \in ClausesOf(l) : SeqToSet(c) \cap w[1] # {}
    /\ (\E c \in ClausesOf(l) : \A j \in DOMAIN c : c[j] = l \/ ~LitTrue(c[j], sol))
          => w = None
\* the clauses of the oracle after init, and the clauses learned since, while
\* the first candidate is the only change
InitCnf == init(inst, opts).cnf
FirstCandidate == pc = "min_block" /\ stats.n_candidates = 1 /\ stats.n_oracle_calls = 1

\* C15: a flip witness that find_flip_witness returns for the objective
\* literal l under sol holds only literals true under sol, does not hold l, and
\* meets every clause recorded for l; there is none when a recorded clause has
\* no true literal other than l.
C15_WitnessSound ==
    \A l \in DOMAIN obj_lit_data, sol \in SUBSET (1 .. max_orig_var) :
        WitnessSound(l, sol, find_flip_witness(l, sol))
C15_Witness ==
    /\ FirstCandidate
    /\ \E c \in oracle \ InitCnf : Cardinality(c) >= 2

\* the assignments that satisfy the original hard and relaxed soft clauses
CnfModels ==
    {a \in SUBSET (1 .. max_orig_var) : \A c \in InitCnf : \E x \in c : LitTrue(x, a)}
Violates(a, c) == \A x \in c : ~LitTrue(x, a)
\* b is no worse than a in every objective and better in one
Dominates(b, a) ==
    /\ \A i \in DOMAIN obj_encs : Cost(i, b) <= Cost(i, a)
    /\ \E i \in DOMAIN obj_encs : Cost(i, b) < Cost(i, a)
\* the clauses a step of get_solution_and_internal_costs adds to the oracle
LearnedInStep == IF pc \in {"outer_cand", "min_cand"} THEN oracle' \ oracle ELSE {}
LearnedAreConsequences ==
    \A c \in LearnedInStep : \A a \in CnfModels : ~Violates(a, c)
LearnedCutDominated ==
    \A c \in LearnedInStep : \A a \in CnfModels :
        Violates(a, c) => \E b \in CnfModels : Dominates(b, a)

\* C16 as stated: every learned clause is a logical consequence of the
\* original CNF: every assignment that satisfies the hard and relaxed soft
\* clauses satisfies the learned clause.
C16_LearnedConsequence == [][LearnedAreConsequences]_vars

\* C16: every assignment that satisfies the original CNF and violates a
\* learned clause is dominated by an assignment that satisfies the original
\* CNF.
C16_LearnedCutsDominated == [][LearnedCutDominated]_vars
C16_Witness ==
    /\ FirstCandidate
    /\ \E c \in oracle \ InitCnf : \E a \in CnfModels : Violates(a, c)

\* the list handed to Objective::new: its weights, and whether they all agree
WeightsOf(lits) == {lits[k][2] : k \in DOMAIN lits}
RECURSIVE WeightSum(_, _)
\* the sum of the weights that the list lits gives the literal l
WeightSum(l, lits) ==
    IF lits = <<>> THEN 0
    ELSE (IF Head(lits)[1] = l THEN Head(lits)[2] ELSE 0) + WeightSum(l, Tail(lits))

\* C17: Objective::new gives Constant exactly for the empty list, Unweighted
\* with the common weight as unit_weight exactly for a non-empty list of equal
\* weights, Weighted otherwise, and stores the offset unchanged.
C17_Classification ==
    objective # None =>
        /\ objective[1].offset = obj_args.offset
        /\ objective[1].kind = "Constant" <=> obj_args.lits = <<>>
        /\ objective[1].kind = "Unweighted" <=> Cardinality(WeightsOf(obj_args.lits)) = 1
        /\ objective[1].kind = "Weighted" <=> Cardinality(WeightsOf(obj_args.lits)) > 1
        /\ objective[1].kind = "Unweighted" =>
              WeightsOf(obj_args.lits) = {objective[1].unit_weight}
C17_Witness ==
    /\ Len(obj_args.lits) = 1 /\ obj_args.lits[1][2] = 2
    /\ objective = Some([kind |-> "Unweighted", offset |-> obj_args.offset,
                         unit_weight |-> 2, lits |-> <<obj_args.lits[1][1]>>])

\* C18: the mapping of a Weighted objective holds every literal of the list
\* once, with the sum of the weights the list gives it.
C18_WeightsSummed ==
    objective # None /\ objective[1].kind = "Weighted" =>
        /\ DOMAIN objective[1].lits = {obj_args.lits[k][1] : k \in DOMAIN obj_args.lits}
        /\ \A l \in DOMAIN objective[1].lits :
              objective[1].lits[l] = WeightSum(l, obj_args.lits)

\* C19: Objective::new produces no objective from a list that holds a literal
\* of weight zero.
C19_ZeroWeightRejected ==
    0 \in WeightsOf(obj_args.lits) => objective = None

\* C20: enforce_ub(k) of the adapter answers Unsat without a call of its
\* encoder when k is below the offset, hands k - offset to the encoder
\* otherwise, and gives no assumption for a Constant objective.
C20_EnforceUbOffset ==
    ub_res # None =>
        IF encoding.kind = "Constant"
        THEN ub_res[1].out.res = "Ok" /\ ub_res[1].out.assumps = {}
        ELSE IF ub_res[1].ub < encoding.offset
        THEN ub_res[1].out.res = "Unsat" /\ ub_res[1].out.forwarded = None
        ELSE /\ ub_res[1].out.forwarded = Some(ub_res[1].ub - encoding.offset)
             /\ ub_res[1].out.res = "Ok"
             /\ ub_res[1].out.assumps = UbOuts(encoding, ub_res[1].ub - encoding.offset)
C20_Witness ==
    /\ encoding.kind = "Weighted" /\ encoding.offset = 2
    /\ ub_res # None /\ ub_res[1].ub = 1 /\ ub_res[1].out.res = "Unsat"

\* the auxiliary variables: encoder outputs, Tseitin variables and the
\* retractable block switch
AuxVars ==
    {enc_vars[key] : key \in DOMAIN enc_vars} \cup DOMAIN tseitin
        \cup {VarOf(block_switch[k]) : k \in DOMAIN block_switch}

\* C21: the assignments stored in the front, which cover the variables up to
\* max_orig_var, assign no encoder output, block switch or Tseitin variable:
\* max_orig_var is smaller than each of them.
C21_StoredOnlyOriginal ==
    pareto_front # <<>> => \A v \in AuxVars : v > max_orig_var

\* the oracle is about to be called: alg_main line 352, p_minimization line
\* 405, enumerate_at_pareto_point line 475
OracleCallNext == pc \in {"outer", "min_solve", "enum_solve"}

\* C22: with a termination callback attached, the callback has been polled
\* between the start of the solve call or the last oracle return and the
\* next oracle call.
C22_PolledBeforeCall == (term_cb /\ OracleCallNext) => polled

\* at line 443 with the solution about to be recorded: the per-point limit is
\* reached with this solution, and after blocking it the oracle has no model
\* left at the point
LimitTerms == {"OracleCallsLimit", "CandidatesLimit", "SolsLimit", "PPLimit"}
LimitAtLast ==
    /\ pc = "enum_sol"
    /\ opts.enumeration.mode # "NoEnum"
    /\ opts.enumeration.limit # None
    /\ Len(pareto_point.sols) + 1 = opts.enumeration.limit[1]
    /\ \A m \in Models(assumps) : Violates(m, BlockSolution(solution))
LimitAtLastReturns ==
    LimitAtLast => pc' = "idle" /\ ret' \in {Some(t) : t \in LimitTerms}
LimitAtLastGoesOn ==
    LimitAtLast =>
        /\ pareto_front' =
              add_pp(pareto_front, [pareto_point EXCEPT !.sols = Append(@, solution)])
        /\ pc' = "commit"
        /\ ret' = ret

BlockCreated ==
    (pc = "min_block" /\ opts.enumeration.mode # "NoEnum") =>
        /\ block_switch' = Some(Not(var_manager'))
        /\ Not(var_manager') \in assumps'
        /\ \E c \in oracle' \ oracle : var_manager' \in c
\* a step that commits the block kept in block_switch: lines 395-397 and 371-373
Commits == pc \in {"min_block", "commit"} /\ block_switch # None
CommitAddsSwitch ==
    BlockCreated /\ (Commits => {Not(block_switch[1])} \in oracle')
CommitAddsNegatedSwitch ==
    /\ BlockCreated
    /\ Commits => block_switch[1] < 0 /\ {block_switch[1]} \in oracle'

\* C24 as stated: the retractable block is the clause (switch or block
\* clause), activated by assuming the negated switch, and committed by adding
\* the unit clause switch.
C24_CommitBySwitch == [][CommitAddsSwitch]_vars

\* C24: the retractable block is the clause (switch or block clause),
\* activated by assuming the negated switch, and committed by adding the
\* negated switch, the literal that was assumed, as a unit clause.
C24_CommitByNegatedSwitch == [][CommitAddsNegatedSwitch]_vars
C24_Witness ==
    /\ pc = "outer"
    /\ \E c \in oracle : \E s \in c :
          s > max_orig_var /\ Cardinality(c) > 1 /\ {Not(s)} \in oracle

\* the step is an attach_logger call and the id it returned is the lowest empty
\* slot, or a new slot at the end when none is empty
AttachedLowest ==
    logger_ids' # logger_ids =>
        LET holes == {k \in DOMAIN loggers : loggers[k] = None}
            id == logger_ids'[Len(logger_ids')]
        IN /\ \A k \in holes : id + 1 <= k
           /\ IF holes = {} THEN id = Len(loggers) ELSE id + 1 \in holes
\* every attached logger sits in the slot that the id returned to it names
AtTheirIds ==
    \A k \in DOMAIN loggers :
        loggers[k] # None => logger_ids[loggers[k][1]] = k - 1
AttachKeepsIds == AttachedLowest /\ AtTheirIds'

\* C25: attach_logger returns the lowest empty slot, or a new slot at the end;
\* after any sequence of attach_logger and detach_logger calls every attached
\* logger is still in the slot its id names, so the ids of attached loggers
\* are pairwise distinct and no detach changes the id of another logger.
C25_LoggerIds == [][AttachKeepsIds]_vars
C25_Witness ==
    \E k \in DOMAIN loggers, j \in DOMAIN loggers :
        /\ loggers[k] # None /\ loggers[j] # None
        /\ k < j /\ loggers[k][1] > loggers[j][1]

\* the step is a candidate of p_minimization (lines 416-419) and its reported
\* costs are at most the preceding candidate's in every objective and smaller
\* in one
MinCandidateImproves ==
    (pc = "min_cand" /\ pc' = "min_block") =>
        /\ \A i \in DOMAIN costs : costs'[i] <= costs[i]
        /\ costs' # costs

\* C26: every candidate that p_minimization gets from a Sat answer reports an
\* internal cost tuple that is componentwise at most the preceding candidate's
\* and differs from it.
C26_CandidateDominates == [][MinCandidateImproves]_vars
C26_Witness ==
    /\ pc = "min_block"
    /\ last_res = Some([phase |-> "Minimization", res |-> "Sat"])
    /\ "Minimization" \in opts.solution_tightening
    /\ opts.enumeration.mode # "NoEnum"

\* the positions of enumerate_at_pareto_point
EnumPcs == {"enum_start", "enum_sol", "enum_solve"}
MinUnsat == Some([phase |-> "Minimization", res |-> "Unsat"])

\* the Minimization call about to be made is under the dominance assumptions
\* and the dominated-region block of the candidate's costs: each model left
\* is at most the candidate in every objective and differs from it
MinCallUnderBlock ==
    pc = "min_solve" =>
        \A m \in Models(assumps) :
            /\ \A i \in DOMAIN costs : Cost(i, m) <= costs[i]
            /\ \E i \in DOMAIN costs : Cost(i, m) < costs[i]
\* enumerate_at_pareto_point is entered only on the Unsat answer of that call,
\* and keeps the candidate's costs
EnumAfterMinUnsat ==
    /\ (pc \notin EnumPcs /\ pc' \in EnumPcs) =>
          pc = "min_solve" /\ last_res' = MinUnsat /\ costs' = costs
    /\ (pc \in EnumPcs /\ pc' \in EnumPcs) => costs' = costs
\* a point is appended in enumerate_at_pareto_point only, with these costs
AppendAfterMinUnsat ==
    (max_orig_var > 0 /\ pareto_front' # pareto_front) =>
        /\ pc \in EnumPcs
        /\ pareto_front' =
              Append(pareto_front, pareto_front'[Len(pareto_front')])
        /\ pareto_front'[Len(pareto_front')].costs = externalize_internal_costs(costs)
\* after a Sat answer of the OuterLoop the next oracle call of the solve call
\* is a Minimization call, and no point is appended before it
MinAfterOuterSat ==
    last_res = Some([phase |-> "OuterLoop", res |-> "Sat"]) =>
        /\ pareto_front' = pareto_front
        /\ last_res' \in {last_res, None} \/ last_res'[1].phase = "Minimization"
PointAfterMinUnsat ==
    MinCallUnderBlock /\ EnumAfterMinUnsat /\ AppendAfterMinUnsat /\ MinAfterOuterSat

\* C27: on an instance with a variable a point is appended to the front only
\* after a Minimization call, made under the dominance assumptions and the
\* dominated-region block of the point's cost tuple, answered Unsat; after a
\* Sat answer of the OuterLoop the next oracle call is a Minimization call and
\* no point is appended before it.
C27_PointAfterMinUnsat == [][PointAfterMinUnsat]_vars
C27_Witness ==
    /\ pc = "commit"
    /\ Len(pareto_front) = 2
    /\ opts.enumeration.mode # "NoEnum"

\* the switches of the retractable blocks: the auxiliary variables that are
\* neither encoder outputs nor Tseitin variables
Switches ==
    {v \in (max_orig_var + 1) .. var_manager : OutKeys(v) = {} /\ v \notin DOMAIN tseitin}
Uncommitted == {v \in Switches : {Not(v)} \notin oracle}
\* no model the OuterLoop call can return is at least a point of the front in
\* every objective
OuterModelsUnblocked ==
    \A m \in Models({}), p \in DOMAIN pareto_front :
        \E i \in DOMAIN obj_encs :
            externalize_internal_costs(CostVec(m))[i] < pareto_front[p].costs[i]

BlockedModels ==
    Models(IF opts.enumeration.mode = "NoEnum" THEN {} ELSE {block_switch[1]})
\* the objectives dominated_block_clause gives a literal: not constant, cost > 0
BlockedObjs(cs) == {i \in DOMAIN cs : obj_encs[i].kind # "Constant" /\ cs[i] > 0}
\* the block clauses the step added: the new clause in NoEnum, the new clause
\* without its switch in the enumeration modes
NewBlocks ==
    IF opts.enumeration.mode = "NoEnum" THEN oracle' \ oracle
    ELSE {c \ {var_manager'} : c \in {d \in oracle' \ oracle : var_manager' \in d}}
BlockClauseSound ==
    pc = "min_block" =>
        /\ \E b \in NewBlocks : NewBlocks = {b}
        /\ \A b \in NewBlocks : Cardinality(b) = Cardinality(BlockedObjs(costs))
        /\ \A m \in BlockedModels' : \E i \in BlockedObjs(costs) : Cost(i, m) <= costs[i] - 1

\* C29: dominated_block_clause(c) has one literal for each objective that is
\* not constant and has c[i] > 0, and no other literal; every model of the
\* oracle that satisfies it has an internal cost of at most c[i] - 1 in one of
\* these objectives, also when enforce_ub returns several literals and the
\* clause gets a Tseitin literal for them.
C29_BlockClause == [][BlockClauseSound]_vars
C29_Witness ==
    /\ pc = "min_solve"
    /\ \E v \in DOMAIN tseitin : Cardinality(tseitin[v]) > 1
    /\ BlockedModels # {}

\* the relaxed clauses init collected from add_objective, in order
InitObjCnf == AddObjectives(NewSolver(inst), opts, inst.objs).obj_cnf
\* the k-th soft clause of objective i and the objective literal it got
SoftOf(i, k) == inst.objs[i].softs[k].cl
OlitOf(i, k) == obj_encs[i].lits[k][1]
Occurrences ==
    UNION {{<<i, k>> : k \in DOMAIN inst.objs[i].softs} : i \in DOMAIN inst.objs}
SoftRelaxedOnce(cl) ==
    /\ cl \in DOMAIN blits
    /\ blits[cl] > inst.nvars
    /\ Cardinality({j \in DOMAIN InitObjCnf : InitObjCnf[j] = Append(cl, blits[cl])}) = 1
    /\ \A j \in DOMAIN InitObjCnf :
          (Len(InitObjCnf[j]) = Len(cl) + 1 /\ SubSeq(InitObjCnf[j], 1, Len(cl)) = cl)
              => InitObjCnf[j] = Append(cl, blits[cl])

\* C30: after init every soft clause of length > 1 has one blit, which is the
\* objective literal of each of its occurrences, and its relaxed clause was
\* added once; a soft clause of length 1 has no blit and the negation of its
\* literal as objective literal.
C30_OneBlit ==
    \A occ \in Occurrences :
        LET cl == SoftOf(occ[1], occ[2]) IN
        /\ Len(cl) = 1 => cl \notin DOMAIN blits /\ OlitOf(occ[1], occ[2]) = Not(cl[1])
        /\ Len(cl) > 1 => SoftRelaxedOnce(cl) /\ OlitOf(occ[1], occ[2]) = blits[cl]
C30_Witness ==
    /\ \E a \in Occurrences, b \in Occurrences :
          a # b /\ a[1] = b[1] /\ SoftOf(a[1], a[2]) = SoftOf(b[1], b[2])
    /\ \E a \in Occurrences, b \in Occurrences :
          a[1] # b[1] /\ SoftOf(a[1], a[2]) = SoftOf(b[1], b[2]) /\ Len(SoftOf(a[1], a[2])) > 1
    /\ \E a \in Occurrences : Len(SoftOf(a[1], a[2])) = 1
    /\ pc = "commit"

\* the variables in use: the instance's and the blits, the encoders' outputs,
\* the Tseitin variables and the switches
FreshFrom(v) == v > var_manager /\ v <= var_manager'
InitKept ==
    /\ obj_clauses' = obj_clauses
    /\ blits' = blits
    /\ obj_lit_data' = obj_lit_data
    /\ max_orig_var' = max_orig_var
    /\ Len(obj_encs') = Len(obj_encs)
    /\ \A i \in DOMAIN obj_encs : obj_encs'[i].kind = obj_encs[i].kind
VarsFresh ==
    /\ var_manager' >= var_manager
    /\ \A v \in DOMAIN tseitin' \ DOMAIN tseitin : FreshFrom(v)
    /\ (block_switch' # None /\ block_switch' # block_switch) =>
          /\ FreshFrom(VarOf(block_switch'[1]))
          /\ VarOf(block_switch'[1]) \notin DOMAIN tseitin'
          /\ \A key \in DOMAIN enc_vars' : enc_vars'[key] # VarOf(block_switch'[1])
InitKeptVarsFresh == InitKept /\ VarsFresh

\* C31: no step of any solve call changes obj_clauses, blits, obj_lit_data,
\* max_orig_var or the number and kinds of the objective encodings; the
\* variable manager's max_var never decreases, and each block switch and
\* Tseitin variable is a variable that was not in use before.
C31_InitKeptVarsFresh == [][InitKeptVarsFresh]_vars
C31_Witness ==
    /\ stats.n_solve_calls = 2
    /\ block_switch # None
    /\ \E v \in DOMAIN tseitin : Cardinality(tseitin[v]) > 1

\* C32: with solution_guided_search on, no variable has a phase from the reset
\* at the start of enumerate_at_pareto_point until the enumeration at the
\* point has ended; with solution_guided_search off no variable ever has one.
C32_UnphasedInEnumeration ==
    /\ pc \in {"enum_sol", "enum_solve", "commit"} => phased = None
    /\ ~opts.solution_guided_search => phased = None
C32_Witness ==
    /\ opts.solution_guided_search
    /\ pc = "enum_solve"
    /\ pareto_front # <<>>
    /\ var_manager > max_orig_var + 2

\* the phase of the candidate about to be read, and whether only clause
\* learning is wanted in it
LearningOnly ==
    /\ pc \in {"outer_cand", "min_cand"}
    /\ wanted(opts.tightening_clauses, CandidatePhase)
    /\ ~wanted(opts.solution_tightening, CandidatePhase)
\* the objective literals true under m whose negation is no objective literal
\* and that have a flip witness, and the clause learned from each
ObjLitsOf == UNION {{obj_encs[i].lits[k][1] : k \in DOMAIN obj_encs[i].lits} : i \in DOMAIN obj_encs}
Learnable(m) ==
    {l \in ObjLitsOf : /\ LitTrue(l, m)
                       /\ Not(l) \notin ObjLitsOf
                       /\ find_flip_witness(l, m) # None}
LearnedFrom(l, m) == {Not(x) : x \in find_flip_witness(l, m)[1]} \cup {Not(l)}

C34_PointsCounted == pc = "idle" => stats.n_pareto_points = Len(pareto_front)


\* the step is an oracle call, and it is counted once
OracleCallCounted ==
    (OracleCallNext /\ pc' # pc) => stats'.n_oracle_calls = stats.n_oracle_calls + 1

\* C35: every call of the oracle, in each phase and whatever it answers,
\* increments stats.n_oracle_calls once.
C35_OracleCallsCounted == [][OracleCallCounted]_vars

\* solve returns in this step, with no callback attached to the solver
ReturnsDetached == pc # "idle" /\ pc' = "idle" /\ ~term_cb
NoCallbackDetached == ReturnsDetached => ret' # Some("Callback")

\* C36 as stated: a solve call made after detach_terminator, with no callback
\* attached, never returns Callback.
C36_NoCallbackDetached == [][NoCallbackDetached]_vars



\* ---------------------------------------------------------------------- C37
\* the counter of field f that the log functions of the step start from: the
\* limit given to solve in the step of the call, else the counter left
CounterBefore(f) ==
    IF stats'.n_solve_calls # stats.n_solve_calls THEN call'.lims[f] ELSE lims[f]
Decrements(f) == CounterBefore(f) # None /\ lims'[f] # CounterBefore(f)
DecrementsAboveZero ==
    /\ ret' # Some("Panic") \/ ret = Some("Panic")
    /\ \A f \in LimitFields : Decrements(f) => CounterBefore(f)[1] >= 1

\* C37: no decrement of a limit counter underflows, whatever limits solve is
\* given, 0 included: every counter a log function decrements is >= 1 before
\* (so a counter that reached 0 is not decremented again), and no decrement
\* panics.
C37_NoUnderflow == [][DecrementsAboveZero]_vars


\* ---------------------------------------------------------------------- C38
\* no two points of the front have equal or componentwise comparable costs
NonDominatedFront(nd) ==
    \A i, j \in DOMAIN nd : i # j => ~Leq(nd[i].costs, nd[j].costs)

\* C38: an extend call with the non-dominance check compiled in, on a front
\* without equal or comparable points, completes only if the resulting front
\* has no two points with equal or comparable costs either, two points of the
\* batch included.
C38_ExtendChecksFront ==
    (/\ extended # None
     /\ extended[1].check
     /\ extended[1].completed
     /\ NonDominatedFront(extended[1].before)) => NonDominatedFront(ndoms)

\* the same for the new points against the points the front had before only
ExtendChecksAgainstOld ==
    (extended # None /\ extended[1].check /\ extended[1].completed) =>
        \A i \in DOMAIN extended[1].before, j \in DOMAIN ndoms :
            j > Len(extended[1].before) =>
                /\ ~Leq(ndoms[i].costs, ndoms[j].costs)
                /\ ~Leq(ndoms[j].costs, ndoms[i].costs)

====
